---- MODULE Spec2Model ----
(***************************************************************************)
(* Sparse matrix-vector multiplication benchmark: the four programs        *)
(*   "seq"    MVM_sequential       (src/unnamed/part_001)                   *)
(*   "par"    MVM_parallel         (src/unnamed/part_000)                   *)
(*   "atomic" MVM_parallel_atomic  (src/unnamed/part_002)                   *)
(*   "sellc"  MVM_parallel_sellc   (src/MVM_parallel_sellc.c)               *)
(* C arrays are functions over 0..n-1, so every index is the source's.     *)
(* Values and vector entries are integers: arithmetic is exact.            *)
(***************************************************************************)
EXTENDS Integers, Sequences, FiniteSets, TLC

VARIABLES prog, file, runs, chunk, sigma, pc, exitCode, out,
          rows, cols, nnz, triplets, maxRow, maxCol,
          rowPtr, colIndex, values, S, x, y, run,
          phase, iters, th, wcount,
          argv, stream, schedStr, threads, times, log, saved

vars == <<prog, file, runs, chunk, sigma, pc, exitCode, out,
          rows, cols, nnz, triplets, maxRow, maxCol,
          rowPtr, colIndex, values, S, x, y, run,
          phase, iters, th, wcount,
          argv, stream, schedStr, threads, times, log, saved>>

\* the command line, the unread rest of the matrix file, and the -s and -t
\* settings: fixed once main has read its arguments and the file
cmdVars == <<argv, stream, schedStr, threads>>

\* ---------------------------------------------------------------- bounds
MaxRows == 3
MaxCols == 2
MaxNnz == 2
MaxVal == 2
MaxX == 1
MaxRuns == 1
MaxC == 2
MaxSigma == 2
NThreads == 2
MaxTime == 2

Programs == {"seq", "par", "atomic", "sellc"}
CsrPrograms == {"seq", "par", "atomic"}
Vals == 1..MaxVal
XVals == 0..MaxX
Threads == 1..NThreads
Timings == 1..MaxTime

\* contents of memory that malloc returned and nothing has written yet
Undef == [undef |-> TRUE]
\* a worker thread that holds no loop iteration
Idle == [it |-> -1, row |-> -1, product |-> 0]

Min(a, b) == IF a < b THEN a ELSE b

\* the entry lines a file may hold: indices around both index bases
RawEntries(r, c) == [row : 0..(r + 1), col : 0..(c + 1), val : Vals]

\* ------------------------------------------------------------ the loader
\* main: the entry loop's running maximum, started at 0
RECURSIVE MaxLoop(_, _, _, _, _)
MaxLoop(m, t, i, n, isRow) ==
  IF i >= n THEN m
  ELSE LET v == IF isRow THEN t[i].row ELSE t[i].col
       IN MaxLoop(IF v > m THEN v ELSE m, t, i + 1, n, isRow)

\* mutant of DetectedOneBased: both maxima must match
DetectedOneBased_Both(mr, mc, r, c) == mr = r /\ mc = c

\* main: "if (maxRow == rows || maxCol == cols)"
DetectedOneBased(mr, mc, r, c) == mr = r \/ mc = c

\* main: "triplets[i].row--; triplets[i].col--;" for every entry
DecrementAll(t, n) ==
  [i \in 0..(n - 1) |-> [row |-> t[i].row - 1, col |-> t[i].col - 1, val |-> t[i].val]]

\* main: the condition of the validation loop
InvalidIndex(e, r, c) == e.row < 0 \/ e.row >= r \/ e.col < 0 \/ e.col >= c

\* main: the validation loop; the index of the first invalid entry, or -1
RECURSIVE FirstInvalid(_, _, _, _, _)
FirstInvalid(t, i, n, r, c) ==
  IF i >= n THEN -1
  ELSE IF InvalidIndex(t[i], r, c) THEN i
  ELSE FirstInvalid(t, i + 1, n, r, c)

\* mutant of firstInvalidEntry: the loop does not stop at the first invalid
\* entry and ends on the last one
firstInvalidEntry_Last(t, n, r, c) ==
  LET bad == {i \in 0..(n - 1) : InvalidIndex(t[i], r, c)}
  IN IF bad = {} THEN -1 ELSE CHOOSE i \in bad : \A j \in bad : j <= i

\* main: the entry the validation loop stops at, or -1 when it runs through
firstInvalidEntry(t, n, r, c) == FirstInvalid(t, 0, n, r, c)

\* cmpTriplet: row first, then column; the value is not compared
cmpTriplet(a, b) == IF a.row # b.row THEN a.row - b.row ELSE a.col - b.col

\* the rearrangements of an n-element array
ArrayOrders(n) ==
  { p \in [0..(n - 1) -> 0..(n - 1)] : \A i, j \in 0..(n - 1) : i # j => p[i] # p[j] }

\* qsort(triplets, nnz, sizeof(Triplet), cmpTriplet): every arrangement of the
\* array that is ordered under cmpTriplet; the order of entries that compare
\* equal is unspecified
qsort(t, n) ==
  { [i \in 0..(n - 1) |-> t[p[i]]] : p \in
      { q \in ArrayOrders(n) :
          \A i, j \in 0..(n - 1) : i < j => cmpTriplet(t[q[i]], t[q[j]]) <= 0 } }

\* ------------------------------------------------------- the CSR builders
\* convertToCSR: "(*rowPtr)[triplets[i].row + 1]++"
RECURSIVE CountLoop(_, _, _, _)
CountLoop(rp, t, i, n) ==
  IF i >= n THEN rp
  ELSE CountLoop([rp EXCEPT ![t[i].row + 1] = @ + 1], t, i + 1, n)

\* mutant of PrefixLoop: the prefix sum stops one row early
RECURSIVE PrefixLoop_StopEarly(_, _, _)
PrefixLoop_StopEarly(rp, i, r) ==
  IF i + 1 >= r THEN rp
  ELSE PrefixLoop_StopEarly([rp EXCEPT ![i + 1] = @ + rp[i]], i + 1, r)

\* convertToCSR: "(*rowPtr)[i + 1] += (*rowPtr)[i]"
RECURSIVE PrefixLoop(_, _, _)
PrefixLoop(rp, i, r) ==
  IF i >= r THEN rp
  ELSE PrefixLoop([rp EXCEPT ![i + 1] = @ + rp[i]], i + 1, r)

\* mutant of ScatterLoop: a second entry of the same (row, col) is added to
\* the first instead of being stored
RECURSIVE ScatterLoop_Merge(_, _, _, _)
ScatterLoop_Merge(st, t, i, n) ==
  IF i >= n THEN st
  ELSE LET row == t[i].row
           dest == st.writePtr[row]
           dup == i > 0 /\ t[i - 1].row = row /\ t[i - 1].col = t[i].col
       IN IF dup
          THEN ScatterLoop_Merge([writePtr |-> [st.writePtr EXCEPT ![row] = @ + 1],
                                  values |-> [st.values EXCEPT ![dest - 1] = @ + t[i].val,
                                                               ![dest] = 0],
                                  colIndex |-> [st.colIndex EXCEPT ![dest] = t[i].col]],
                                 t, i + 1, n)
          ELSE ScatterLoop_Merge([writePtr |-> [st.writePtr EXCEPT ![row] = @ + 1],
                                  values |-> [st.values EXCEPT ![dest] = t[i].val],
                                  colIndex |-> [st.colIndex EXCEPT ![dest] = t[i].col]],
                                 t, i + 1, n)

\* convertToCSR (row-parallel): scatter through a copy of rowPtr used as
\* write pointers
RECURSIVE ScatterLoop(_, _, _, _)
ScatterLoop(st, t, i, n) ==
  IF i >= n THEN st
  ELSE LET row == t[i].row
           dest == st.writePtr[row]
       IN ScatterLoop([writePtr |-> [st.writePtr EXCEPT ![row] = @ + 1],
                       values |-> [st.values EXCEPT ![dest] = t[i].val],
                       colIndex |-> [st.colIndex EXCEPT ![dest] = t[i].col]],
                      t, i + 1, n)

\* convertToCSR of the row-parallel program
convertToCSR(t, n, r) ==
  LET rp == PrefixLoop(CountLoop([i \in 0..r |-> 0], t, 0, n), 0, r)
      st == ScatterLoop([writePtr |-> rp,
                         values |-> [k \in 0..(n - 1) |-> Undef],
                         colIndex |-> [k \in 0..(n - 1) |-> Undef]], t, 0, n)
  IN [rowPtr |-> rp, values |-> st.values, colIndex |-> st.colIndex]

\* convertToCSR (atomic): the same scatter through writePtr
RECURSIVE ScatterLoopAtomic(_, _, _, _)
ScatterLoopAtomic(st, t, i, n) ==
  IF i >= n THEN st
  ELSE LET row == t[i].row
           dest == st.writePtr[row]
       IN ScatterLoopAtomic([writePtr |-> [st.writePtr EXCEPT ![row] = @ + 1],
                             values |-> [st.values EXCEPT ![dest] = t[i].val],
                             colIndex |-> [st.colIndex EXCEPT ![dest] = t[i].col]],
                            t, i + 1, n)

\* convertToCSR of the atomic program
convertToCSR_atomic(t, n, r) ==
  LET rp == PrefixLoop(CountLoop([i \in 0..r |-> 0], t, 0, n), 0, r)
      st == ScatterLoopAtomic([writePtr |-> rp,
                               values |-> [k \in 0..(n - 1) |-> Undef],
                               colIndex |-> [k \in 0..(n - 1) |-> Undef]], t, 0, n)
  IN [rowPtr |-> rp, values |-> st.values, colIndex |-> st.colIndex]

\* convertToCSR (sequential): rowPtr itself is the counter, decremented from
\* the end of each row: "dest = (*rowPtr)[row + 1] - 1; ... (*rowPtr)[row + 1]--"
RECURSIVE ScatterLoopSeq(_, _, _, _)
ScatterLoopSeq(st, t, i, n) ==
  IF i >= n THEN st
  ELSE LET row == t[i].row
           dest == st.rowPtr[row + 1] - 1
       IN ScatterLoopSeq([rowPtr |-> [st.rowPtr EXCEPT ![row + 1] = @ - 1],
                          values |-> [st.values EXCEPT ![dest] = t[i].val],
                          colIndex |-> [st.colIndex EXCEPT ![dest] = t[i].col]],
                         t, i + 1, n)

\* convertToCSR of the sequential program
convertToCSR_seq(t, n, r) ==
  LET rp == PrefixLoop(CountLoop([i \in 0..r |-> 0], t, 0, n), 0, r)
  IN ScatterLoopSeq([rowPtr |-> rp,
                     values |-> [k \in 0..(n - 1) |-> Undef],
                     colIndex |-> [k \in 0..(n - 1) |-> Undef]], t, 0, n)

\* main of the SELL-C program: "int r=row[i]; int pos=tmp[r]++; ..."
RECURSIVE SellScatterLoop(_, _, _, _)
SellScatterLoop(st, t, i, n) ==
  IF i >= n THEN st
  ELSE LET r == t[i].row
           pos == st.tmp[r]
       IN SellScatterLoop([tmp |-> [st.tmp EXCEPT ![r] = @ + 1],
                           values |-> [st.values EXCEPT ![pos] = t[i].val],
                           colIndex |-> [st.colIndex EXCEPT ![pos] = t[i].col]],
                          t, i + 1, n)

\* main of the SELL-C program: "for(int i=0;i<nnz;i++) rowptr[row[i]+1]++;"
\* on rows nothing has validated.  rowptr has rows + 1 elements; a count
\* stored outside them changes none of them.
RECURSIVE SellCountLoop(_, _, _, _)
SellCountLoop(rp, t, i, n) ==
  IF i >= n THEN rp
  ELSE SellCountLoop(IF t[i].row + 1 \in DOMAIN rp
                     THEN [rp EXCEPT ![t[i].row + 1] = @ + 1]
                     ELSE rp,
                     t, i + 1, n)

\* some count "rowptr[row[i]+1]++" is stored outside rowptr[0..rows]
StoresOutsideRowptr(t, n, r) ==
  \E i \in 0..(n - 1) : t[i].row + 1 \notin 0..r

\* some scatter step "pos=tmp[r]++" reads outside tmp[0..rows]: pos is then
\* whatever lies beside tmp
ReadsOutsideTmp(t, n, r) ==
  \E i \in 0..(n - 1) : t[i].row \notin 0..r

\* main of the SELL-C program: the inline CSR conversion, on unsorted entries
sellcConvertToCSR(t, n, r) ==
  LET rp == PrefixLoop(SellCountLoop([i \in 0..r |-> 0], t, 0, n), 0, r)
      st == SellScatterLoop([tmp |-> rp,
                             values |-> [k \in 0..(n - 1) |-> Undef],
                             colIndex |-> [k \in 0..(n - 1) |-> Undef]], t, 0, n)
  IN [rowPtr |-> rp, values |-> st.values, colIndex |-> st.colIndex]

\* ------------------------------------------------------ the SELL-C builder
\* mutant of SortInner: the exchange is made when row_len[j] < row_len[i]
RECURSIVE SortInner_Ascending(_, _, _, _)
SortInner_Ascending(rl, i, j, end) ==
  IF j >= end THEN rl
  ELSE SortInner_Ascending(IF rl[j] < rl[i]
                           THEN [rl EXCEPT ![i] = rl[j], ![j] = rl[i]]
                           ELSE rl, i, j + 1, end)

\* csr_to_sellcs: the exchange sort's inner loop over j, on the lengths only
RECURSIVE SortInner(_, _, _, _)
SortInner(rl, i, j, end) ==
  IF j >= end THEN rl
  ELSE SortInner(IF rl[j] > rl[i]
                 THEN [rl EXCEPT ![i] = rl[j], ![j] = rl[i]]
                 ELSE rl, i, j + 1, end)

\* csr_to_sellcs: the exchange sort's outer loop over i in one window
RECURSIVE SortWindow(_, _, _)
SortWindow(rl, i, end) ==
  IF i >= end THEN rl
  ELSE SortWindow(SortInner(rl, i, i + 1, end), i + 1, end)

\* csr_to_sellcs: "for(int b=0;b<rows;b+=sigma)", sorting row_len by window
RECURSIVE SortBlocks(_, _, _, _)
SortBlocks(rl, b, r, sg) ==
  IF b >= r THEN rl
  ELSE SortBlocks(SortWindow(rl, b, Min(b + sg, r)), b + sg, r, sg)

\* mutant of SliceMax: the length of the slice's first row is taken
SliceMax_First(m, rl, r, end) == IF r >= end THEN m ELSE rl[r]

\* csr_to_sellcs: max_len of one slice, started at 0
RECURSIVE SliceMax(_, _, _, _)
SliceMax(m, rl, r, end) ==
  IF r >= end THEN m
  ELSE SliceMax(IF rl[r] > m THEN rl[r] ELSE m, rl, r + 1, end)

\* mutant of SlicePtrLoop: the slice length is not multiplied by C
RECURSIVE SlicePtrLoop_NoPad(_, _, _, _, _)
SlicePtrLoop_NoPad(sp, sl, s, slices, c) ==
  IF s >= slices THEN sp
  ELSE SlicePtrLoop_NoPad([sp EXCEPT ![s + 1] = sp[s] + sl[s]], sl, s + 1, slices, c)

\* csr_to_sellcs: "S->slice_ptr[s+1] = S->slice_ptr[s] + S->slice_lengths[s]*C"
RECURSIVE SlicePtrLoop(_, _, _, _, _)
SlicePtrLoop(sp, sl, s, slices, c) ==
  IF s >= slices THEN sp
  ELSE SlicePtrLoop([sp EXCEPT ![s + 1] = sp[s] + sl[s] * c], sl, s + 1, slices, c)

\* one store into col_idx/values; a store past the allocation changes neither
\* array and is recorded as out of bounds
SellStore(st, idx, cv, vv) ==
  IF idx \in DOMAIN st.values
  THEN [st EXCEPT !.values[idx] = vv, !.col_idx[idx] = cv]
  ELSE [st EXCEPT !.oob = @ \cup {idx}]

\* csr_to_sellcs: "for(int j=csr_start;j<csr_end;j++,k++)" then "for(;k<slice_len;k++)"
RECURSIVE FillRow(_, _, _, _, _, _, _, _)
FillRow(st, k, r, start, base, slice_len, c, csr) ==
  LET j == csr.rowPtr[r] + k
      idx == base + k * c + (r - start)
  IN IF j < csr.rowPtr[r + 1]
     THEN FillRow(SellStore(st, idx, csr.colIndex[j], csr.values[j]),
                  k + 1, r, start, base, slice_len, c, csr)
     ELSE IF k < slice_len
     THEN FillRow(SellStore(st, idx, 0, 0), k + 1, r, start, base, slice_len, c, csr)
     ELSE st

\* csr_to_sellcs: "for(int r=start;r<end;r++)" of the fill
RECURSIVE FillSlice(_, _, _, _, _, _, _, _)
FillSlice(st, r, start, end, base, slice_len, c, csr) ==
  IF r >= end THEN st
  ELSE FillSlice(FillRow(st, 0, r, start, base, slice_len, c, csr),
                 r + 1, start, end, base, slice_len, c, csr)

\* csr_to_sellcs: "for(int s=0;s<S->slices;s++)" of the fill
RECURSIVE FillLoop(_, _, _, _, _, _, _, _)
FillLoop(st, s, slices, sl, sp, r, c, csr) ==
  IF s >= slices THEN st
  ELSE FillLoop(FillSlice(st, s * c, s * c, Min(s * c + c, r), sp[s], sl[s], c, csr),
                s + 1, slices, sl, sp, r, c, csr)

\* csr_to_sellcs: the indices "base + k*C + (r-start)" at which the fill of
\* slice s stores: for each row of the slice, k runs over the row's CSR
\* entries and then on to slice_len
FillWrites(s, sell, csr) ==
  LET start == s * sell.C
      end == Min(start + sell.C, sell.rows)
      base == sell.slice_ptr[s]
      slice_len == sell.slice_lengths[s]
  IN UNION { { base + k * sell.C + (r - start) :
                 k \in 0..((IF csr.rowPtr[r + 1] - csr.rowPtr[r] > slice_len
                            THEN csr.rowPtr[r + 1] - csr.rowPtr[r]
                            ELSE slice_len) - 1) } :
             r \in start..(end - 1) }

\* csr_to_sellcs(rows, cols, nnz, csr_val, csr_col, csr_rowptr, C, sigma), C > 0
\* and sigma > 0
csr_to_sellcs(r, cl, csr, c, sg) ==
  LET slices == (r + c - 1) \div c
      row_len == SortBlocks([i \in 0..(r - 1) |-> csr.rowPtr[i + 1] - csr.rowPtr[i]],
                            0, r, sg)
      sl == [s \in 0..(slices - 1) |->
               SliceMax(0, row_len, s * c, Min(s * c + c, r))]
      sp == SlicePtrLoop([s \in 0..slices |-> 0], sl, 0, slices, c)
      total == sp[slices]
      st == FillLoop([values |-> [k \in 0..(total - 1) |-> Undef],
                      col_idx |-> [k \in 0..(total - 1) |-> Undef],
                      oob |-> {}], 0, slices, sl, sp, r, c, csr)
  IN [C |-> c, sigma |-> sg, rows |-> r, cols |-> cl, slices |-> slices,
      slice_ptr |-> sp, slice_lengths |-> sl, row_len |-> row_len,
      col_idx |-> st.col_idx, values |-> st.values, oob |-> st.oob]

\* ------------------------------------------------------------ the kernels
\* the inner loop of the row kernels: "sum += values[j] * x[colIndex[j]]"
RECURSIVE RowSum(_, _, _, _, _, _)
RowSum(sum, j, end, vals, ci, xv) ==
  IF j >= end THEN sum
  ELSE RowSum(sum + vals[j] * xv[ci[j]], j + 1, end, vals, ci, xv)

\* csrMatVecMultiply of the sequential program
csrMatVecMultiply_seq(r, vals, ci, rp, xv) ==
  [i \in 0..(r - 1) |-> RowSum(0, rp[i], rp[i + 1], vals, ci, xv)]

\* mutant of findRow: the search leaves out the last row
findRow_ShortHigh(k, rp, r) ==
  LET hit == {m \in 0..(r - 2) : rp[m] <= k /\ k < rp[m + 1]}
  IN IF hit = {} THEN 0 ELSE CHOOSE m \in hit : TRUE

\* mutant of findRowLoop: the hit test is "rowPtr[mid] < k"
RECURSIVE findRowLoop_Strict(_, _, _, _)
findRowLoop_Strict(low, high, k, rp) ==
  IF low > high THEN 0
  ELSE LET mid == (low + high) \div 2
       IN IF rp[mid] < k /\ k < rp[mid + 1] THEN mid
          ELSE IF k < rp[mid] THEN findRowLoop_Strict(low, mid - 1, k, rp)
          ELSE findRowLoop_Strict(mid + 1, high, k, rp)

\* findRow: whether the while loop ends with low > high, so that the
\* fallback "return 0" is what findRow returns
RECURSIVE findRowFallsBack(_, _, _, _)
findRowFallsBack(low, high, k, rp) ==
  IF low > high THEN TRUE
  ELSE LET mid == (low + high) \div 2
       IN IF rp[mid] <= k /\ k < rp[mid + 1] THEN FALSE
          ELSE IF k < rp[mid] THEN findRowFallsBack(low, mid - 1, k, rp)
          ELSE findRowFallsBack(mid + 1, high, k, rp)

\* findRow(k, rowPtr, rows): binary search; the fallback result is 0
RECURSIVE findRowLoop(_, _, _, _)
findRowLoop(low, high, k, rp) ==
  IF low > high THEN 0
  ELSE LET mid == (low + high) \div 2
       IN IF rp[mid] <= k /\ k < rp[mid + 1] THEN mid
          ELSE IF k < rp[mid] THEN findRowLoop(low, mid - 1, k, rp)
          ELSE findRowLoop(mid + 1, high, k, rp)

findRow(k, rp, r) == findRowLoop(0, r - 1, k, rp)

\* The numbers of the matrix, of x and of y are doubles with integer values
\* from 0 on.  One more kind of double is read by the SELL-C kernel, from the
\* memory before x: an integer field of the allocator seen as a double, which
\* is the subnormal number q * 2^-1074 for the field's value q.  It is written
\* Denormal(q) and kept as the integer -q, so that every cell of y is an
\* integer: a cell below 0 holds that many units of 2^-1074.
Denormal(q) == 0 - q

\* the double sum a + b: the sum of two integers or of two subnormal numbers
\* is exact; a subnormal number added to an integer other than 0 is lost in
\* the rounding
DoubleSum(a, b) ==
  IF a > 0 /\ b < 0 THEN a
  ELSE IF a < 0 /\ b > 0 THEN b
  ELSE a + b

\* the size field of the chunk that "malloc(bytes)" returns, the 8 bytes
\* before the returned address: the chunk's size (the request and its
\* header rounded up to 16, at least 32) with the allocator's lowest flag
\* set.  For up to 3 doubles it is 0x21.
MallocSizeField(bytes) ==
  LET r == ((bytes + 8 + 15) \div 16) * 16
  IN (IF r < 32 THEN 32 ELSE r) + 1

\* sellcs_spmv: one slice's iteration, "for k ... for r ... y[r]+=S->values[idx]*x[S->col_idx[idx]]"
RECURSIVE SliceRows(_, _, _, _, _, _, _)
SliceRows(yv, r, start, end, offset, sell, xv) ==
  IF r >= end THEN yv
  ELSE LET idx == offset + (r - start)
       IN SliceRows([yv EXCEPT ![r] = DoubleSum(@, sell.values[idx] * xv[sell.col_idx[idx]])],
                    r + 1, start, end, offset, sell, xv)

RECURSIVE SliceBody(_, _, _, _, _)
SliceBody(yv, k, s, sell, xv) ==
  LET start == s * sell.C
      end == Min(start + sell.C, sell.rows)
  IN IF k >= sell.slice_lengths[s] THEN yv
     ELSE SliceBody(SliceRows(yv, start, start, end, sell.slice_ptr[s] + k * sell.C, sell, xv),
                    k + 1, s, sell, xv)

\* --------------------------------------------------------------- the state
NoOutput == [kind |-> "none"]
Unset == << >>
AllIdle == [t \in Threads |-> Idle]
csrOf == [rowPtr |-> rowPtr, colIndex |-> colIndex, values |-> values]

\* the command line and the matrix file a run is started with: a file with a
\* well-formed header and nnz well-formed entry lines
Init ==
  /\ prog \in Programs
  /\ \E r \in 1..MaxRows, c \in 1..MaxCols, n \in 1..MaxNnz :
       \E e \in [0..(n - 1) -> RawEntries(r, c)] :
         file = [rows |-> r, cols |-> c, nnz |-> n, entries |-> e]
  /\ runs \in 1..MaxRuns
  /\ chunk \in (IF prog = "sellc" THEN 1..MaxC ELSE {0})
  /\ sigma \in (IF prog = "sellc" THEN 1..MaxSigma ELSE {0})
  /\ pc = "load"
  /\ exitCode = -1
  /\ out = NoOutput
  /\ rows = 0 /\ cols = 0 /\ nnz = 0
  /\ triplets = Unset
  /\ maxRow = 0 /\ maxCol = 0
  /\ rowPtr = Unset /\ colIndex = Unset /\ values = Unset
  /\ S = Unset
  /\ x = Unset /\ y = Unset
  /\ run = 0
  /\ phase = "none" /\ iters = {} /\ th = AllIdle /\ wcount = Unset
  /\ argv = Unset /\ stream = Unset
  /\ schedStr = "guided" /\ threads = 0
  /\ times = Unset /\ log = << >> /\ saved = Unset

\* ------------------------------------------- main of the three CSR programs
\* header and entry loop: the entries as read, and the maxima seen
ReadMatrix ==
  /\ pc = "load" /\ prog \in CsrPrograms
  /\ rows' = file.rows /\ cols' = file.cols /\ nnz' = file.nnz
  /\ triplets' = file.entries
  /\ maxRow' = MaxLoop(0, file.entries, 0, file.nnz, TRUE)
  /\ maxCol' = MaxLoop(0, file.entries, 0, file.nnz, FALSE)
  /\ pc' = "detect"
  /\ UNCHANGED <<cmdVars, times, log, saved, prog, file, runs, chunk, sigma, exitCode, out, rowPtr, colIndex,
                 values, S, x, y, run, phase, iters, th, wcount>>

\* "If indices are 1-based, subtract 1 from all"
ConvertIndexing ==
  /\ pc = "detect"
  /\ triplets' = IF DetectedOneBased(maxRow, maxCol, rows, cols)
                 THEN DecrementAll(triplets, nnz) ELSE triplets
  /\ pc' = "validate"
  /\ UNCHANGED <<cmdVars, times, log, saved, prog, file, runs, chunk, sigma, exitCode, out, rows, cols, nnz,
                 maxRow, maxCol, rowPtr, colIndex, values, S, x, y, run, phase,
                 iters, th, wcount>>

\* "Validate indices": the first invalid entry is reported and main returns 1
ValidateIndices ==
  /\ pc = "validate"
  /\ LET i == firstInvalidEntry(triplets, nnz, rows, cols)
     IN IF i >= 0
        THEN /\ out' = [kind |-> "invalid indices", entry |-> i + 1,
                        row |-> triplets[i].row, col |-> triplets[i].col]
             /\ exitCode' = 1
             /\ pc' = "exit"
        ELSE /\ pc' = "sort"
             /\ UNCHANGED <<out, exitCode>>
  /\ UNCHANGED <<cmdVars, times, log, saved, prog, file, runs, chunk, sigma, rows, cols, nnz, triplets,
                 maxRow, maxCol, rowPtr, colIndex, values, S, x, y, run, phase,
                 iters, th, wcount>>

\* "qsort(triplets, nnz, sizeof(Triplet), cmpTriplet)"
SortTriplets ==
  /\ pc = "sort"
  /\ triplets' \in qsort(triplets, nnz)
  /\ pc' = "convert"
  /\ UNCHANGED <<cmdVars, times, log, saved, prog, file, runs, chunk, sigma, exitCode, out, rows, cols, nnz,
                 maxRow, maxCol, rowPtr, colIndex, values, S, x, y, run, phase,
                 iters, th, wcount>>

\* "convertToCSR(triplets, nnz, rows, cols, &values, &colIndex, &rowPtr)"
BuildCSR ==
  /\ pc = "convert" /\ prog \in CsrPrograms
  /\ LET csr == CASE prog = "seq" -> convertToCSR_seq(triplets, nnz, rows)
                  [] prog = "par" -> convertToCSR(triplets, nnz, rows)
                  [] prog = "atomic" -> convertToCSR_atomic(triplets, nnz, rows)
     IN /\ rowPtr' = csr.rowPtr
        /\ colIndex' = csr.colIndex
        /\ values' = csr.values
  /\ pc' = "config"
  /\ UNCHANGED <<cmdVars, times, log, saved, prog, file, runs, chunk, sigma, exitCode, out, rows, cols, nnz,
                 triplets, maxRow, maxCol, S, x, y, run, phase, iters, th, wcount>>

\* ------------------------------------------------ main of the SELL-C program
\* header and entry loop: "row[i]--; col[i]--;" on every entry as it is read
SellRead ==
  /\ pc = "load" /\ prog = "sellc"
  /\ rows' = file.rows /\ cols' = file.cols /\ nnz' = file.nnz
  /\ triplets' = DecrementAll(file.entries, file.nnz)
  /\ pc' = "convert"
  /\ UNCHANGED <<cmdVars, times, log, saved, prog, file, runs, chunk, sigma, exitCode, out, maxRow, maxCol,
                 rowPtr, colIndex, values, S, x, y, run, phase, iters, th, wcount>>

\* "Convert to CSR": no validation and no sort come before it; a row outside
\* [0, rows) indexes rowptr or tmp outside the allocation.  A row below 0 or
\* above rows makes the scatter read its position from outside tmp, and the
\* process dies in the conversion.  A row equal to rows is counted one
\* element past rowptr and scattered through tmp[rows], the last element of
\* tmp, which starts at the number of entries counted inside rowptr: every
\* scatter store then lands inside csr_col and csr_val.  After that one
\* out-of-bounds count the process stops in the conversion or goes on with
\* the arrays the remaining stores built.
SellBuildCSR ==
  /\ pc = "convert" /\ prog = "sellc"
  /\ IF ReadsOutsideTmp(triplets, nnz, rows)
     THEN /\ pc' = "ub"
          /\ out' = [kind |-> "out-of-bounds access", at |-> "csr"]
          /\ UNCHANGED <<rowPtr, colIndex, values>>
     ELSE \/ /\ LET csr == sellcConvertToCSR(triplets, nnz, rows)
                IN /\ rowPtr' = csr.rowPtr
                   /\ colIndex' = csr.colIndex
                   /\ values' = csr.values
             /\ pc' = "sell"
             /\ out' = out
          \/ /\ StoresOutsideRowptr(triplets, nnz, rows)
             /\ pc' = "ub"
             /\ out' = [kind |-> "out-of-bounds access", at |-> "csr"]
             /\ UNCHANGED <<rowPtr, colIndex, values>>
  /\ UNCHANGED <<cmdVars, times, log, saved, prog, file, runs, chunk, sigma, exitCode, rows, cols, nnz,
                 triplets, maxRow, maxCol, S, x, y, run, phase, iters, th, wcount>>

\* "SELL_CS *S = csr_to_sellcs(rows,cols,nnz,csr_val,csr_col,rowptr,chunk,sigma)".
\* With C = 0 the builder's first division, (rows + C - 1)/C, is by zero.
\* With sigma = 0 its loop "for(int b=0;b<rows;b+=sigma)", once entered,
\* never advances: the builder does not return (pc = "spin").  After a store past the end of
\* col_idx/values the run may go on or abort.
SellBuild ==
  /\ pc = "sell"
  /\ IF chunk = 0
     THEN /\ S' = S
          /\ pc' = "ub"
          /\ out' = [kind |-> "division by zero", at |-> "sell"]
     ELSE IF sigma = 0 /\ rows > 0
     THEN /\ S' = S
          /\ pc' = "spin"
          /\ out' = out
     ELSE /\ S' = csr_to_sellcs(rows, cols, csrOf, chunk, sigma)
          /\ \/ /\ pc' = "config"
                /\ out' = out
             \/ /\ S'.oob # {}
                /\ pc' = "ub"
                /\ out' = [kind |-> "out-of-bounds access", at |-> "sell"]
  /\ UNCHANGED <<cmdVars, times, log, saved, prog, file, runs, chunk, sigma, exitCode, rows, cols, nnz,
                 triplets, maxRow, maxCol, rowPtr, colIndex, values, x, y, run,
                 phase, iters, th, wcount>>

\* ------------------------------------------------------------ the run loop
\* mutant of RunLoopCond: the loop runs once more
RunLoopCond_OneMore(i, n) == i <= n

\* the run loop's condition, "i < runs"
RunLoopCond(i, n) == i < n

\* parseSchedule: 1 for the four schedule names, 0 for any other string
parseSchedule(s) == s \in {"static", "dynamic", "guided", "auto"}

\* "Allocating vectors": x, y and times are allocated, nothing is stored in
\* them yet.  The row-parallel and atomic programs then check the schedule
\* name: an unknown name frees everything and main returns 1.  Otherwise the
\* run loop is entered, or passed over when runs <= 0.
Configure ==
  /\ pc = "config"
  /\ IF prog \in {"par", "atomic"} /\ ~parseSchedule(schedStr)
     THEN /\ out' = [kind |-> "unknown schedule", name |-> schedStr]
          /\ exitCode' = 1
          /\ pc' = "exit"
          /\ UNCHANGED <<x, y, times, run>>
     ELSE /\ x' = [j \in 0..(cols - 1) |-> Undef]
          /\ y' = [i \in 0..(rows - 1) |-> Undef]
          /\ times' = [i \in 0..(runs - 1) |-> Undef]
          /\ run' = 0
          /\ pc' = IF RunLoopCond(0, runs) THEN "genx" ELSE "save"
          /\ UNCHANGED <<out, exitCode>>
  /\ UNCHANGED <<cmdVars, log, saved, prog, file, runs, chunk, sigma, rows, cols, nnz,
                 triplets, maxRow, maxCol, rowPtr, colIndex, values, S, phase,
                 iters, th, wcount>>

\* "x[j] = (double)rand() / RAND_MAX" for every j, then the kernel is entered
GenX ==
  /\ pc = "genx"
  /\ x' \in [0..(cols - 1) -> XVals]
  /\ pc' = "kernel"
  /\ phase' = CASE prog = "seq" -> "seq"
                [] prog = "par" -> "rows"
                [] OTHER -> "zero"
  /\ iters' = IF prog = "seq" THEN {} ELSE 0..(rows - 1)
  /\ th' = AllIdle
  /\ wcount' = [i \in 0..(rows - 1) |-> 0]
  /\ log' = log \o <<[ev |-> "x", n |-> run + 1], [ev |-> "call", n |-> run + 1]>>
  /\ UNCHANGED <<cmdVars, times, saved, prog, file, runs, chunk, sigma, exitCode, out, rows, cols, nnz,
                 triplets, maxRow, maxCol, rowPtr, colIndex, values, S, y, run>>

\* "times[i] = end - start; printf("Run %d: ... ms\n", i + 1, times[i])" and
\* the loop's increment: every run measures any of Timings, whatever the
\* runs before measured; after the last run the sequential program goes on
\* to sort its timings
PrintRun ==
  /\ pc = "print"
  /\ \E ms \in Timings :
       /\ times' = [times EXCEPT ![run] = ms]
       /\ log' = Append(log, [ev |-> "print", n |-> run + 1, ms |-> ms])
  /\ run' = run + 1
  /\ pc' = IF RunLoopCond(run + 1, runs) THEN "genx"
           ELSE IF prog = "seq" THEN "sorttimes" ELSE "save"
  /\ UNCHANGED <<cmdVars, saved, prog, file, runs, chunk, sigma, exitCode, out, rows, cols, nnz,
                 triplets, maxRow, maxCol, rowPtr, colIndex, values, S, x, y,
                 phase, iters, th, wcount>>

\* the sequential program's "Sort timings ascending": the inner loop over j
RECURSIVE TimesSortInner(_, _, _, _)
TimesSortInner(tm, i, j, n) ==
  IF j >= n THEN tm
  ELSE TimesSortInner(IF tm[j] < tm[i]
                      THEN [tm EXCEPT ![i] = tm[j], ![j] = tm[i]]
                      ELSE tm, i, j + 1, n)

\* mutant of TimesSortOuter: the last position is never compared
RECURSIVE TimesSortOuter_ShortInner(_, _, _)
TimesSortOuter_ShortInner(tm, i, n) ==
  IF i >= n - 1 THEN tm
  ELSE TimesSortOuter_ShortInner(TimesSortInner(tm, i, i + 1, n - 1), i + 1, n)

\* "for (int i = 0; i < runs - 1; i++)" of the sort
RECURSIVE TimesSortOuter(_, _, _)
TimesSortOuter(tm, i, n) ==
  IF i >= n - 1 THEN tm
  ELSE TimesSortOuter(TimesSortInner(tm, i, i + 1, n), i + 1, n)

\* "int keep = (int)(0.9 * runs)" for runs > 0: the product is rounded towards
\* zero, and 0.9 * runs in double arithmetic never falls below 9*runs/10 when
\* that is an integer
keepOf(n) == (9 * n) \div 10

\* the sequential program sorts times in place
SortTimings ==
  /\ pc = "sorttimes"
  /\ times' = TimesSortOuter(times, 0, runs)
  /\ pc' = "save"
  /\ UNCHANGED <<cmdVars, log, saved, prog, file, runs, chunk, sigma, exitCode, out, rows, cols, nnz,
                 triplets, maxRow, maxCol, rowPtr, colIndex, values, S, x, y, run,
                 phase, iters, th, wcount>>

\* the name of the result file and the number of timings written to it
ResultFile(pg) == IF pg = "seq" THEN "best_runs.txt" ELSE "all_runs.txt"
ResultCount(pg, n) == IF pg = "seq" THEN keepOf(n) ELSE IF n > 0 THEN n ELSE 0

\* the SELL-C program has stored outside one of its arrays: a count
\* "rowptr[row[i]+1]++" of a row equal to rows, or a fill of csr_to_sellcs
\* outside the slice arrays.  The store is undefined behaviour; where the
\* build goes on, the allocator may find the damage when the arrays are freed.
HeapDamaged ==
  /\ prog = "sellc"
  /\ \/ StoresOutsideRowptr(triplets, nnz, rows)
     \/ (S # Unset /\ S.oob # {})

\* "fp = fopen(..., "w")" succeeds or fails.  The three CSR programs write the
\* timings when it succeeds and report the failure otherwise, and return 0
\* either way.  The SELL-C program does not test fp: after a failed fopen it
\* passes the null stream to fprintf and fclose; after a successful one it
\* writes the file and frees its arrays, which aborts the process when the
\* allocator finds the heap damaged.
SaveResults ==
  /\ pc = "save"
  /\ \E ok \in BOOLEAN :
       /\ log' = Append(log, [ev |-> "fopen", ok |-> ok])
       /\ IF ok
          THEN /\ saved' = [name |-> ResultFile(prog),
                            lines |-> [i \in 1..ResultCount(prog, runs) |-> times[i - 1]]]
               /\ \/ /\ out' = IF prog = "sellc" THEN out ELSE [kind |-> "success"]
                     /\ exitCode' = 0
                     /\ pc' = "done"
                  \/ /\ HeapDamaged
                     /\ out' = [kind |-> "abort", at |-> "cleanup"]
                     /\ pc' = "ub"
                     /\ exitCode' = exitCode
          ELSE IF prog = "sellc"
          THEN /\ out' = [kind |-> "null stream", at |-> "save"]
               /\ pc' = "ub"
               /\ UNCHANGED <<saved, exitCode>>
          ELSE /\ out' = [kind |-> "could not create output file", name |-> ResultFile(prog)]
               /\ exitCode' = 0
               /\ pc' = "done"
               /\ saved' = saved
  /\ UNCHANGED <<cmdVars, times, prog, file, runs, chunk, sigma, rows, cols, nnz,
                 triplets, maxRow, maxCol, rowPtr, colIndex, values, S, x, y, run,
                 phase, iters, th, wcount>>

\* -------------------------------------------------- the kernel invocations
\* what a kernel neither reads for writing nor writes
kernelFixed == <<cmdVars, times, saved, prog, file, runs, chunk, sigma, exitCode,
                 rows, cols, nnz, triplets, maxRow, maxCol, rowPtr, colIndex,
                 values, S, x, run>>

\* csrMatVecMultiply of the sequential program, called from the run loop
SeqKernel ==
  /\ pc = "kernel" /\ phase = "seq"
  /\ y' = csrMatVecMultiply_seq(rows, values, colIndex, rowPtr, x)
  /\ wcount' = [i \in 0..(rows - 1) |-> wcount[i] + 1]
  /\ phase' = "none"
  /\ pc' = "print"
  /\ log' = Append(log, [ev |-> "return", n |-> run + 1])
  /\ UNCHANGED <<kernelFixed, out, iters, th>>

\* mutant of RowIteration: the inner loop starts one entry late
RowIteration_SkipFirst(yv, i, vals, ci, rp, xv) ==
  [yv EXCEPT ![i] = RowSum(0, rp[i] + 1, rp[i + 1], vals, ci, xv)]

\* csrMatVecMultiply (row-parallel): the body of iteration i, "double sum = 0.0;
\* for (j ...) sum += ...; y[i] = sum;"
RowIteration(yv, i, vals, ci, rp, xv) ==
  [yv EXCEPT ![i] = RowSum(0, rp[i], rp[i + 1], vals, ci, xv)]

\* "#pragma omp parallel for schedule(runtime)": a thread of the team takes an
\* iteration no thread has taken; which one it takes is the schedule's choice
ParClaim(t) ==
  /\ pc = "kernel" /\ phase = "rows"
  /\ th[t] = Idle
  /\ \E i \in iters :
       /\ th' = [th EXCEPT ![t] = [it |-> i, row |-> i, product |-> 0]]
       /\ iters' = iters \ {i}
  /\ UNCHANGED <<kernelFixed, log, out, pc, phase, y, wcount>>

\* the thread runs the iteration it holds
ParBody(t) ==
  /\ pc = "kernel" /\ phase = "rows"
  /\ th[t] # Idle
  /\ y' = RowIteration(y, th[t].it, values, colIndex, rowPtr, x)
  /\ wcount' = [wcount EXCEPT ![th[t].it] = @ + 1]
  /\ th' = [th EXCEPT ![t] = Idle]
  /\ UNCHANGED <<kernelFixed, log, out, pc, phase, iters>>

\* the barrier that ends the parallel loop; csrMatVecMultiply returns
ParJoin ==
  /\ pc = "kernel" /\ phase = "rows"
  /\ iters = {} /\ th = AllIdle
  /\ phase' = "none"
  /\ pc' = "print"
  /\ log' = Append(log, [ev |-> "return", n |-> run + 1])
  /\ UNCHANGED <<kernelFixed, out, y, iters, th, wcount>>

\* mutant of AtomicZero: y is zeroed in the first run only
AtomicZero_FirstRunOnly ==
  /\ pc = "kernel" /\ phase = "zero" /\ prog = "atomic"
  /\ \E i \in iters :
       /\ y' = IF run = 0 THEN [y EXCEPT ![i] = 0] ELSE y
       /\ iters' = iters \ {i}
  /\ UNCHANGED <<kernelFixed, log, out, pc, phase, th, wcount>>

\* csrMatVecMultiply (atomic): one iteration of "y[i] = 0.0"
AtomicZero ==
  /\ pc = "kernel" /\ phase = "zero" /\ prog = "atomic"
  /\ \E i \in iters :
       /\ y' = [y EXCEPT ![i] = 0]
       /\ iters' = iters \ {i}
  /\ UNCHANGED <<kernelFixed, log, out, pc, phase, th, wcount>>

\* mutant of AtomicBarrier: from the second invocation on the second loop
\* starts without waiting for the zeroing loop
AtomicBarrier_NoWaitLater ==
  /\ pc = "kernel" /\ phase = "zero" /\ prog = "atomic"
  /\ iters = {} \/ run > 0
  /\ phase' = "accum"
  /\ iters' = 0..(rowPtr[rows] - 1)
  /\ UNCHANGED <<kernelFixed, log, out, pc, y, th, wcount>>

\* the barrier after the zeroing loop; "int total_nnz = rowPtr[rows]"
AtomicBarrier ==
  /\ pc = "kernel" /\ phase = "zero" /\ prog = "atomic"
  /\ iters = {}
  /\ phase' = "accum"
  /\ iters' = 0..(rowPtr[rows] - 1)
  /\ UNCHANGED <<kernelFixed, log, out, pc, y, th, wcount>>

\* iteration k up to the atomic: "row = findRow(k, rowPtr, rows);
\* product = values[k] * x[colIndex[k]]"
AtomicProduct(k, vals, ci, rp, r, xv) ==
  [it |-> k, row |-> findRow(k, rp, r), product |-> vals[k] * xv[ci[k]]]

AtomicClaim(t) ==
  /\ pc = "kernel" /\ phase = "accum" /\ prog = "atomic"
  /\ th[t] = Idle
  /\ \E k \in iters :
       /\ th' = [th EXCEPT ![t] = AtomicProduct(k, values, colIndex, rowPtr, rows, x)]
       /\ iters' = iters \ {k}
  /\ UNCHANGED <<kernelFixed, log, out, pc, phase, y, wcount>>

\* "#pragma omp atomic  y[row] += product"
AtomicAdd(t) ==
  /\ pc = "kernel" /\ phase = "accum" /\ prog = "atomic"
  /\ th[t] # Idle
  /\ y' = [y EXCEPT ![th[t].row] = @ + th[t].product]
  /\ wcount' = [wcount EXCEPT ![th[t].row] = @ + 1]
  /\ th' = [th EXCEPT ![t] = Idle]
  /\ UNCHANGED <<kernelFixed, log, out, pc, phase, iters>>

\* the barrier that ends the second loop; csrMatVecMultiply returns
AtomicJoin ==
  /\ pc = "kernel" /\ phase = "accum" /\ prog = "atomic"
  /\ iters = {} /\ th = AllIdle
  /\ phase' = "none"
  /\ pc' = "print"
  /\ log' = Append(log, [ev |-> "return", n |-> run + 1])
  /\ UNCHANGED <<kernelFixed, out, y, iters, th, wcount>>

\* sellcs_spmv: one iteration of "y[r]=0.0"
SellZero ==
  /\ pc = "kernel" /\ phase = "zero" /\ prog = "sellc"
  /\ \E r \in iters :
       /\ y' = [y EXCEPT ![r] = 0]
       /\ iters' = iters \ {r}
  /\ UNCHANGED <<kernelFixed, log, out, pc, phase, th, wcount>>

\* the barrier after the zeroing loop
SellBarrier ==
  /\ pc = "kernel" /\ phase = "zero" /\ prog = "sellc"
  /\ iters = {}
  /\ phase' = "accum"
  /\ iters' = 0..(S.slices - 1)
  /\ UNCHANGED <<kernelFixed, log, out, pc, y, th, wcount>>

\* sellcs_spmv: the rows "for(int r=start;r<end;r++)" of slice s, whose y[r]
\* the slice iteration reads and writes
SliceRowRange(s, sell) ==
  { r \in 0..(sell.rows - 1) : s * sell.C <= r /\ r < Min(s * sell.C + sell.C, sell.rows) }

\* mutant of SellClaim: the slice taken stays available to the other threads
SellClaim_KeepSlice(t) ==
  /\ pc = "kernel" /\ phase = "accum" /\ prog = "sellc"
  /\ th[t] = Idle
  /\ \E s \in iters :
       /\ th' = [th EXCEPT ![t] = [it |-> s, row |-> s * S.C, product |-> 0]]
       /\ iters' = iters
  /\ UNCHANGED <<kernelFixed, log, out, pc, phase, y, wcount>>

\* a thread takes a slice
SellClaim(t) ==
  /\ pc = "kernel" /\ phase = "accum" /\ prog = "sellc"
  /\ th[t] = Idle
  /\ \E s \in iters :
       /\ th' = [th EXCEPT ![t] = [it |-> s, row |-> s * S.C, product |-> 0]]
       /\ iters' = iters \ {s}
  /\ UNCHANGED <<kernelFixed, log, out, pc, phase, y, wcount>>

\* the cells of slice s that the slice iteration reads
SliceCells(s, sell) ==
  { sell.slice_ptr[s] + k * sell.C + d :
      k \in 0..(sell.slice_lengths[s] - 1),
      d \in 0..(Min(s * sell.C + sell.C, sell.rows) - s * sell.C - 1) }

\* the columns stored in slice s that are outside [0, cols)
OutsideX(s, sell, cl) ==
  { sell.col_idx[c] : c \in SliceCells(s, sell) } \ (0..(cl - 1))

\* x as the slice iteration reads it: the cells of x, and beside them what
\* the memory outside the allocation holds
ReadX(xv, beside) ==
  [j \in (DOMAIN xv) \cup (DOMAIN beside) |-> IF j \in DOMAIN xv THEN xv[j] ELSE beside[j]]

\* what a read of x[j] can return for j outside [0, cols), x being
\* "malloc(cols*sizeof(double))": x[-1] is the size field of x's chunk; a
\* cell behind x is memory nothing of the program has written since the
\* allocation, holding any number.  (The columns of the inputs reach -1 and
\* cols only.)
BesideX(j, cl) ==
  IF j = -1 THEN {Denormal(MallocSizeField(cl * 8))} ELSE XVals

\* the thread runs the slice it holds; a stored column outside [0, cols)
\* makes it read x outside the allocation: the process stops there, or the
\* read returns what the cell beside x holds and the slice goes on
SellSlice(t) ==
  /\ pc = "kernel" /\ phase = "accum" /\ prog = "sellc"
  /\ th[t] # Idle
  /\ \/ /\ \E beside \in [OutsideX(th[t].it, S, cols) ->
                             XVals \cup {Denormal(MallocSizeField(cols * 8))}] :
              /\ \A j \in DOMAIN beside : beside[j] \in BesideX(j, cols)
              /\ y' = SliceBody(y, 0, th[t].it, S, ReadX(x, beside))
        /\ th' = [th EXCEPT ![t] = Idle]
        /\ UNCHANGED <<pc, out>>
     \/ /\ OutsideX(th[t].it, S, cols) # {}
        /\ pc' = "ub"
        /\ out' = [kind |-> "out-of-bounds access", at |-> "spmv"]
        /\ UNCHANGED <<y, th>>
  /\ UNCHANGED <<kernelFixed, log, phase, iters, wcount>>

\* the barrier that ends the slice loop; sellcs_spmv returns
SellJoin ==
  /\ pc = "kernel" /\ phase = "accum" /\ prog = "sellc"
  /\ iters = {} /\ th = AllIdle
  /\ phase' = "none"
  /\ pc' = "print"
  /\ log' = Append(log, [ev |-> "return", n |-> run + 1])
  /\ UNCHANGED <<kernelFixed, out, y, iters, th, wcount>>

Next ==
  \/ ReadMatrix \/ ConvertIndexing \/ ValidateIndices \/ SortTriplets \/ BuildCSR
  \/ SellRead \/ SellBuildCSR \/ SellBuild
  \/ Configure \/ GenX \/ PrintRun \/ SortTimings \/ SaveResults
  \/ SeqKernel
  \/ \E t \in Threads : ParClaim(t) \/ ParBody(t)
  \/ ParJoin
  \/ AtomicZero \/ AtomicBarrier
  \/ \E t \in Threads : AtomicClaim(t) \/ AtomicAdd(t)
  \/ AtomicJoin
  \/ SellZero \/ SellBarrier
  \/ \E t \in Threads : SellClaim(t) \/ SellSlice(t)
  \/ SellJoin

Spec == Init /\ [][Next]_vars

\* ------------------------------------------------- the text of a matrix file
\* A file is a sequence of lines and a line a sequence of tokens separated by
\* blanks.  The tokens: an integer numeral, a numeral "n.0", the ".0" that is
\* left of "n.0" once %d has taken n, a word that is no number, and the '%'
\* that opens a comment line.
IntTok(n) == [k |-> "int", v |-> n]
RealTok(n) == [k |-> "real", v |-> n]
FracTok == [k |-> "frac", v |-> 0]
WordTok == [k |-> "word", v |-> 0]
PctTok == [k |-> "pct", v |-> 0]

\* the tokens of the lines ls as one stream: fscanf skips line ends as blanks
RECURSIVE Flatten(_)
Flatten(ls) == IF ls = << >> THEN << >> ELSE Head(ls) \o Flatten(Tail(ls))

\* the conversion %d on the stream ts: an integer is taken whole, of "n.0" the
\* digits are taken and ".0" stays; anything else does not match
ScanInt(ts) ==
  IF ts = << >> THEN [ok |-> FALSE, eof |-> TRUE, v |-> 0, rest |-> ts]
  ELSE CASE Head(ts).k = "int" ->
              [ok |-> TRUE, eof |-> FALSE, v |-> Head(ts).v, rest |-> Tail(ts)]
         [] Head(ts).k = "real" ->
              [ok |-> TRUE, eof |-> FALSE, v |-> Head(ts).v, rest |-> <<FracTok>> \o Tail(ts)]
         [] OTHER -> [ok |-> FALSE, eof |-> FALSE, v |-> 0, rest |-> ts]

\* the conversion %lf: an integer, "n.0" and ".0" are numbers
ScanDouble(ts) ==
  IF ts = << >> THEN [ok |-> FALSE, eof |-> TRUE, v |-> 0, rest |-> ts]
  ELSE CASE Head(ts).k \in {"int", "real", "frac"} ->
              [ok |-> TRUE, eof |-> FALSE, v |-> Head(ts).v, rest |-> Tail(ts)]
         [] OTHER -> [ok |-> FALSE, eof |-> FALSE, v |-> 0, rest |-> ts]

\* the value of a scanf call whose conversions a, b, c ran in this order:
\* the number of conversions made, or EOF (-1) when the input ended before
\* the first
ScanCount(a, b, c) ==
  IF ~a.ok THEN (IF a.eof THEN -1 ELSE 0)
  ELSE IF ~b.ok THEN 1
  ELSE IF ~c.ok THEN 2 ELSE 3

\* what a scanf call leaves in the stream: it stops at the first conversion
\* that fails, and the conversions after it are not tried
ScanRest(a, b, c) ==
  IF ~a.ok THEN a.rest
  ELSE IF ~b.ok THEN b.rest
  ELSE c.rest

\* fscanf(fin, "%d %d %d", &rows, &cols, &nnz) and sscanf(line, ...)
ScanHeader(ts) ==
  LET a == ScanInt(ts)
      b == ScanInt(a.rest)
      c == ScanInt(b.rest)
  IN [n |-> ScanCount(a, b, c), rows |-> a.v, cols |-> b.v, nnz |-> c.v,
      rest |-> ScanRest(a, b, c)]

\* fscanf(fin, "%d %d %lf", &row, &col, &val); the callers use row, col and
\* val only when all three conversions were made
ScanEntry(ts) ==
  LET a == ScanInt(ts)
      b == ScanInt(a.rest)
      c == ScanDouble(b.rest)
  IN [n |-> ScanCount(a, b, c), row |-> a.v, col |-> b.v, val |-> c.v,
      rest |-> ScanRest(a, b, c)]

\* a line whose first character is '%'
IsComment(l) == l # << >> /\ Head(l).k = "pct"

\* "while ((ch = fgetc(fin)) != EOF) { if (ch == '%') skip the line; else
\* { ungetc; break; } }": the lines left when the loop ends
RECURSIVE SkipCommentLines(_)
SkipCommentLines(ls) ==
  IF ls # << >> /\ IsComment(Head(ls)) THEN SkipCommentLines(Tail(ls)) ELSE ls

\* mutant of NonPositiveDims: a count of zero is accepted
NonPositiveDims_AllowZero(r, c, n) == r < 0 \/ c < 0 \/ n < 0

\* "if (rows <= 0 || cols <= 0 || nnz <= 0)"
NonPositiveDims(r, c, n) == r <= 0 \/ c <= 0 \/ n <= 0

\* the entry a failing fscanf leaves: the fields converted before the failure
\* are stored (row, or row and col), the others are as malloc left them
PartlyScanned(old, e) ==
  IF e.n = 1 THEN [row |-> e.row, col |-> Undef, val |-> Undef]
  ELSE IF e.n = 2 THEN [row |-> e.row, col |-> e.col, val |-> Undef]
  ELSE old

\* the entry loop of the three CSR programs: entry i is scanned into
\* triplets[i] and the maxima are updated; bad is the number (from 1) of the
\* entry whose fscanf did not return 3, or 0
RECURSIVE EntryLoop(_, _, _)
EntryLoop(st, i, n) ==
  IF i >= n THEN st
  ELSE LET e == ScanEntry(st.rest)
       IN IF e.n # 3
          THEN [st EXCEPT !.bad = i + 1, !.rest = e.rest,
                          !.triplets[i] = PartlyScanned(@, e)]
          ELSE EntryLoop([triplets |-> [st.triplets EXCEPT
                                          ![i] = [row |-> e.row, col |-> e.col, val |-> e.val]],
                          maxRow |-> IF e.row > st.maxRow THEN e.row ELSE st.maxRow,
                          maxCol |-> IF e.col > st.maxCol THEN e.col ELSE st.maxCol,
                          rest |-> e.rest, bad |-> 0], i + 1, n)

\* the entry loop of the SELL-C program: "row[i]--; col[i]--;" on each entry
\* that was read whole
RECURSIVE SellEntryLoop(_, _, _)
SellEntryLoop(st, i, n) ==
  IF i >= n THEN st
  ELSE LET e == ScanEntry(st.rest)
       IN IF e.n # 3
          THEN [st EXCEPT !.bad = i + 1, !.rest = e.rest,
                          !.triplets[i] = PartlyScanned(@, e)]
          ELSE SellEntryLoop([triplets |-> [st.triplets EXCEPT
                                ![i] = [row |-> e.row - 1, col |-> e.col - 1, val |-> e.val]],
                              rest |-> e.rest, bad |-> 0], i + 1, n)

\* "while(fgets(line,sizeof(line),f)) if(line[0]!='%') break;": the buffer
\* holds the first line that is no comment, or the last line read when there
\* is none; nothing was ever read into it when the file is empty
SellHeaderLine(ls) ==
  LET r == SkipCommentLines(ls)
  IN IF r # << >> THEN [read |-> TRUE, line |-> Head(r), rest |-> Tail(r)]
     ELSE IF ls # << >> THEN [read |-> TRUE, line |-> ls[Len(ls)], rest |-> << >>]
     ELSE [read |-> FALSE, line |-> << >>, rest |-> << >>]

\* ---------------------------------------------------------- the command line
\* atoi on the argument strings used here; a string that does not start with
\* a number gives 0
atoi(s) ==
  CASE s = "-1" -> -1
    [] s = "1" -> 1
    [] s = "2" -> 2
    [] s = "3" -> 3
    [] OTHER -> 0

\* the number of runs when none, or none above 0, is given
DefaultRuns == 10

argc(av) == Cardinality(DOMAIN av)

\* argv for the program name pg followed by the arguments args
Cmd(pg, args) == [i \in 0..Len(args) |-> IF i = 0 THEN pg ELSE args[i]]

\* "for (int i = 2; i < argc; i++)" of the row-parallel and atomic programs;
\* ret is the value main returns from inside the loop, or -1.  Only the
\* row-parallel program has the final else branch (rejectUnknown).
RECURSIVE ArgLoop(_, _, _, _)
ArgLoop(st, i, av, rejectUnknown) ==
  IF i >= argc(av) THEN st
  ELSE IF av[i] = "-r" /\ i + 1 < argc(av)
  THEN ArgLoop([st EXCEPT !.runs = IF atoi(av[i + 1]) <= 0 THEN DefaultRuns
                                   ELSE atoi(av[i + 1])], i + 2, av, rejectUnknown)
  ELSE IF av[i] = "-t" /\ i + 1 < argc(av)
  THEN ArgLoop([st EXCEPT !.threads = IF atoi(av[i + 1]) < 0 THEN 0
                                      ELSE atoi(av[i + 1])], i + 2, av, rejectUnknown)
  ELSE IF av[i] = "-s" /\ i + 1 < argc(av)
  THEN ArgLoop([st EXCEPT !.schedStr = av[i + 1]], i + 2, av, rejectUnknown)
  ELSE IF av[i] = "-c" /\ i + 1 < argc(av)
  THEN ArgLoop([st EXCEPT !.chunk = IF atoi(av[i + 1]) < 0 THEN 0
                                    ELSE atoi(av[i + 1])], i + 2, av, rejectUnknown)
  ELSE IF av[i] = "-h" \/ av[i] = "--help"
  THEN [st EXCEPT !.ret = 0]
  ELSE IF rejectUnknown
  THEN [st EXCEPT !.ret = 1, !.unknown = av[i]]
  ELSE ArgLoop(st, i + 1, av, rejectUnknown)

\* the defaults main sets before the loop
ArgDefaults == [runs |-> DefaultRuns, threads |-> 0, schedStr |-> "guided",
                chunk |-> 0, ret |-> -1, unknown |-> ""]

\* -------------------------------------------------- the inputs of a session
\* the one matrix file that exists, and the largest number of entry lines
MatrixName == "m.txt"
MaxFileEntries == 2

CommentLine == <<PctTok, WordTok>>

\* header lines: "2 2 1", "2 2 2", "2 2", "2 2 0" and "2 x 1"
HeaderLines ==
  { <<IntTok(2), IntTok(2), IntTok(1)>>, <<IntTok(2), IntTok(2), IntTok(2)>>,
    <<IntTok(2), IntTok(2)>>, <<IntTok(2), IntTok(2), IntTok(0)>>,
    <<IntTok(2), WordTok, IntTok(1)>> }

\* entry lines: "1 1 1.0", "2 2 2.0", "0 1 1.0" and "1 x 1.0"
EntryLines ==
  { <<IntTok(1), IntTok(1), RealTok(1)>>, <<IntTok(2), IntTok(2), RealTok(2)>>,
    <<IntTok(0), IntTok(1), RealTok(1)>>, <<IntTok(1), WordTok, RealTok(1)>> }

\* the file texts: at most one comment line, at most one header line, then
\* at most MaxFileEntries entry lines
SessionFiles ==
  { c \o h \o b : c \in {<< >>, <<CommentLine>>},
                  h \in {<< >>} \cup {<<l>> : l \in HeaderLines},
                  b \in UNION {[1..n -> EntryLines] : n \in 0..MaxFileEntries} }

\* the command lines of the sequential program, after argv[0]
SeqCommands ==
  { << >>, <<MatrixName, "1">>, <<MatrixName, "2">>, <<MatrixName, "3">>,
    <<MatrixName, "-r", "2">>, <<MatrixName, "2", "-h">>, <<"-h">> }

\* the command lines of the row-parallel and atomic programs
ParCommands ==
  { << >>, <<MatrixName, "-r", "1">>, <<MatrixName, "-r", "2">>,
    <<MatrixName, "-r", "2", "-s", "bogus">>,
    <<MatrixName, "-r", "1", "-s", "static", "-t", "2", "-c", "1">>,
    <<MatrixName, "-h">>, <<"--help">>, <<MatrixName, "-r", "1", "-s", "-h">>,
    <<MatrixName, "-r", "1", "-x">> }

\* the command lines of the SELL-C program
SellCommands ==
  { <<MatrixName, "-r", "2", "-c", "1", "-s", "2", "-t", "2">>,
    <<MatrixName, "-r", "1", "-c", "2", "-s", "1", "-t", "2">>,
    <<MatrixName, "-r", "0", "-c", "1", "-s", "1", "-t", "2">>,
    <<MatrixName, "-r", "1", "-c", "0", "-s", "1", "-t", "2">>,
    <<MatrixName, "-r", "1", "-c", "1", "-s", "x", "-t", "2">>,
    <<MatrixName, "-h", "1", "-c", "1", "-s", "1", "-t", "2">>,
    <<"-h", "-r", "1", "-c", "1", "-s", "1", "-t", "2">>,
    <<MatrixName, "-h">>, <<"-h">> }

Commands(pg) ==
  CASE pg = "seq" -> SeqCommands
    [] pg \in {"par", "atomic"} -> ParCommands
    [] pg = "sellc" -> SellCommands

\* a process is started on a command line, with the matrix file in place
SessionInit ==
  /\ prog \in Programs
  /\ argv \in {Cmd(prog, a) : a \in Commands(prog)}
  /\ file \in {[name |-> MatrixName, lines |-> l] : l \in SessionFiles}
  /\ stream = Unset
  /\ runs = 0 /\ chunk = 0 /\ sigma = 0 /\ threads = 0 /\ schedStr = ""
  /\ pc = "start"
  /\ exitCode = -1
  /\ out = NoOutput
  /\ rows = 0 /\ cols = 0 /\ nnz = 0
  /\ triplets = Unset
  /\ maxRow = 0 /\ maxCol = 0
  /\ rowPtr = Unset /\ colIndex = Unset /\ values = Unset
  /\ S = Unset
  /\ x = Unset /\ y = Unset
  /\ run = 0
  /\ phase = "none" /\ iters = {} /\ th = AllIdle /\ wcount = Unset
  /\ times = Unset /\ log = << >> /\ saved = Unset

\* what main's argument handling and loading leave alone
matrixVars == <<rows, cols, nnz, triplets, maxRow, maxCol>>
builtVars == <<rowPtr, colIndex, values, S>>
runVars == <<x, y, run, phase, iters, th, wcount, times, saved>>

\* main of the sequential program: "if (argc < 2)", then
\* "int runs = (argc >= 3) ? atoi(argv[2]) : 10; if (runs <= 0) runs = 10;"
SeqArgs ==
  /\ pc = "start" /\ prog = "seq"
  /\ IF argc(argv) < 2
     THEN /\ out' = [kind |-> "usage"]
          /\ exitCode' = 1
          /\ pc' = "exit"
          /\ runs' = runs
     ELSE /\ runs' = LET r == IF argc(argv) >= 3 THEN atoi(argv[2]) ELSE DefaultRuns
                     IN IF r <= 0 THEN DefaultRuns ELSE r
          /\ pc' = "open"
          /\ UNCHANGED <<out, exitCode>>
  /\ UNCHANGED <<argv, stream, schedStr, threads, prog, file, chunk, sigma, log,
                 matrixVars, builtVars, runVars>>

\* main of the row-parallel and atomic programs: "if (argc < 2)", the
\* defaults and the option loop
ParArgs ==
  /\ pc = "start" /\ prog \in {"par", "atomic"}
  /\ IF argc(argv) < 2
     THEN /\ out' = [kind |-> "usage"]
          /\ exitCode' = 1
          /\ pc' = "exit"
          /\ UNCHANGED <<runs, threads, schedStr, chunk>>
     ELSE LET st == ArgLoop(ArgDefaults, 2, argv, prog = "par")
          IN /\ runs' = st.runs
             /\ threads' = st.threads
             /\ schedStr' = st.schedStr
             /\ chunk' = st.chunk
             /\ IF st.ret = 0
                THEN out' = [kind |-> "usage"] /\ exitCode' = 0 /\ pc' = "exit"
                ELSE IF st.ret = 1
                THEN /\ out' = [kind |-> "unknown option", name |-> st.unknown]
                     /\ exitCode' = 1 /\ pc' = "exit"
                ELSE pc' = "open" /\ UNCHANGED <<out, exitCode>>
  /\ UNCHANGED <<argv, stream, prog, file, sigma, log, matrixVars, builtVars, runVars>>

\* main of the SELL-C program: "if(argc<10)", then the values at the fixed
\* positions 3, 5, 7 and 9; the flags at 2, 4, 6 and 8 are not looked at
SellArgs ==
  /\ pc = "start" /\ prog = "sellc"
  /\ IF argc(argv) < 10
     THEN /\ out' = [kind |-> "usage"]
          /\ exitCode' = 1
          /\ pc' = "exit"
          /\ UNCHANGED <<runs, chunk, sigma, threads>>
     ELSE /\ runs' = atoi(argv[3])
          /\ chunk' = atoi(argv[5])
          /\ sigma' = atoi(argv[7])
          /\ threads' = atoi(argv[9])
          /\ pc' = "open"
          /\ UNCHANGED <<out, exitCode>>
  /\ UNCHANGED <<argv, stream, schedStr, prog, file, log, matrixVars, builtVars, runVars>>

\* "fopen(filename, "r")" with filename = argv[1]: only the matrix file exists
OpenFile ==
  /\ pc = "open"
  /\ IF argv[1] = file.name
     THEN /\ stream' = file.lines
          /\ log' = Append(log, [ev |-> "open", n |-> 0])
          /\ pc' = "skip"
          /\ UNCHANGED <<out, exitCode>>
     ELSE /\ out' = [kind |-> "cannot open file", name |-> argv[1]]
          /\ exitCode' = 1
          /\ pc' = "exit"
          /\ UNCHANGED <<stream, log>>
  /\ UNCHANGED <<argv, schedStr, threads, prog, file, runs, chunk, sigma,
                 matrixVars, builtVars, runVars>>

\* the three CSR programs: the comment lines are skipped; "if (ch == EOF)"
\* nothing is left
SkipComments ==
  /\ pc = "skip" /\ prog \in CsrPrograms
  /\ LET r == SkipCommentLines(stream)
     IN IF r = << >>
        THEN /\ out' = [kind |-> "only comments or empty"]
             /\ exitCode' = 1
             /\ pc' = "exit"
             /\ stream' = r
        ELSE /\ stream' = r
             /\ pc' = "header"
             /\ UNCHANGED <<out, exitCode>>
  /\ UNCHANGED <<argv, schedStr, threads, prog, file, runs, chunk, sigma, log,
                 matrixVars, builtVars, runVars>>

\* the three CSR programs: the header is scanned, the counts are checked and
\* the triplets are allocated.  A scan that fails has stored the counts it
\* converted and has consumed their text.
ReadHeader ==
  /\ pc = "header" /\ prog \in CsrPrograms
  /\ LET h == ScanHeader(Flatten(stream))
     IN IF h.n # 3
        THEN /\ out' = [kind |-> "invalid matrix header"]
             /\ exitCode' = 1
             /\ pc' = "exit"
             /\ rows' = (IF h.n >= 1 THEN h.rows ELSE rows)
             /\ cols' = (IF h.n >= 2 THEN h.cols ELSE cols)
             /\ stream' = <<h.rest>>
             /\ UNCHANGED <<nnz, triplets>>
        ELSE /\ rows' = h.rows /\ cols' = h.cols /\ nnz' = h.nnz
             /\ stream' = <<h.rest>>
             /\ IF NonPositiveDims(h.rows, h.cols, h.nnz)
                THEN /\ out' = [kind |-> "invalid matrix dimensions"]
                     /\ exitCode' = 1
                     /\ pc' = "exit"
                     /\ triplets' = triplets
                ELSE /\ triplets' = [i \in 0..(h.nnz - 1) |-> Undef]
                     /\ pc' = "entries"
                     /\ UNCHANGED <<out, exitCode>>
  /\ UNCHANGED <<argv, schedStr, threads, prog, file, runs, chunk, sigma, log,
                 maxRow, maxCol, builtVars, runVars>>

\* the three CSR programs: the entry loop
ReadEntries ==
  /\ pc = "entries" /\ prog \in CsrPrograms
  /\ LET st == EntryLoop([triplets |-> triplets, maxRow |-> 0, maxCol |-> 0,
                          rest |-> Flatten(stream), bad |-> 0], 0, nnz)
     IN /\ triplets' = st.triplets
        /\ maxRow' = st.maxRow
        /\ maxCol' = st.maxCol
        /\ stream' = <<st.rest>>
        /\ IF st.bad # 0
           THEN /\ out' = [kind |-> "invalid matrix element", entry |-> st.bad]
                /\ exitCode' = 1
                /\ pc' = "exit"
           ELSE /\ pc' = "detect"
                /\ UNCHANGED <<out, exitCode>>
  /\ UNCHANGED <<argv, schedStr, threads, prog, file, runs, chunk, sigma, log,
                 rows, cols, nnz, builtVars, runVars>>

\* the SELL-C program: the header line is found with fgets and scanned with
\* sscanf; row, col and val are allocated; no count is checked.  A scan that
\* fails has stored the counts it converted.  On an empty file sscanf reads
\* a buffer nothing was stored in: it finds no header there and main returns
\* 1, or the read of the uninitialized buffer takes the process elsewhere.
SellHeader ==
  /\ pc = "skip" /\ prog = "sellc"
  /\ LET l == SellHeaderLine(stream)
         h == ScanHeader(l.line)
     IN IF ~l.read
        THEN /\ \/ /\ out' = [kind |-> "invalid matrix header"]
                   /\ exitCode' = 1
                   /\ pc' = "exit"
                \/ /\ out' = [kind |-> "uninitialized read", at |-> "header"]
                   /\ pc' = "ub"
                   /\ exitCode' = exitCode
             /\ UNCHANGED <<rows, cols, nnz, triplets, stream>>
        ELSE IF h.n # 3
        THEN /\ out' = [kind |-> "invalid matrix header"]
             /\ exitCode' = 1
             /\ pc' = "exit"
             /\ stream' = l.rest
             /\ rows' = (IF h.n >= 1 THEN h.rows ELSE rows)
             /\ cols' = (IF h.n >= 2 THEN h.cols ELSE cols)
             /\ UNCHANGED <<nnz, triplets>>
        ELSE /\ rows' = h.rows /\ cols' = h.cols /\ nnz' = h.nnz
             /\ stream' = l.rest
             /\ triplets' = [i \in 0..(h.nnz - 1) |-> Undef]
             /\ pc' = "entries"
             /\ UNCHANGED <<out, exitCode>>
  /\ UNCHANGED <<argv, schedStr, threads, prog, file, runs, chunk, sigma, log,
                 maxRow, maxCol, builtVars, runVars>>

\* the SELL-C program: the entry loop; the failing entry is reported from 0
SellEntries ==
  /\ pc = "entries" /\ prog = "sellc"
  /\ LET st == SellEntryLoop([triplets |-> triplets, rest |-> Flatten(stream),
                              bad |-> 0], 0, nnz)
     IN /\ triplets' = st.triplets
        /\ stream' = <<st.rest>>
        /\ IF st.bad # 0
           THEN /\ out' = [kind |-> "error reading matrix entry", entry |-> st.bad - 1]
                /\ exitCode' = 1
                /\ pc' = "exit"
           ELSE /\ pc' = "convert"
                /\ UNCHANGED <<out, exitCode>>
  /\ UNCHANGED <<argv, schedStr, threads, prog, file, runs, chunk, sigma, log,
                 rows, cols, nnz, maxRow, maxCol, builtVars, runVars>>

SessionNext ==
  \/ SeqArgs \/ ParArgs \/ SellArgs \/ OpenFile
  \/ SkipComments \/ ReadHeader \/ ReadEntries
  \/ SellHeader \/ SellEntries
  \/ ConvertIndexing \/ ValidateIndices \/ SortTriplets \/ BuildCSR
  \/ SellBuildCSR \/ SellBuild
  \/ Configure \/ GenX \/ PrintRun \/ SortTimings \/ SaveResults
  \/ SeqKernel
  \/ \E t \in Threads : ParClaim(t) \/ ParBody(t)
  \/ ParJoin
  \/ AtomicZero \/ AtomicBarrier
  \/ \E t \in Threads : AtomicClaim(t) \/ AtomicAdd(t)
  \/ AtomicJoin
  \/ SellZero \/ SellBarrier
  \/ \E t \in Threads : SellClaim(t) \/ SellSlice(t)
  \/ SellJoin

Session == SessionInit /\ [][SessionNext]_vars

\* ------------------------------------- the second loop of the atomic kernel
\* The atomic csrMatVecMultiply at the barrier after its zeroing loop, on
\* CSR matrices with more rows and entries than the files above hold: one
\* column, every entry 1 at column 0, x = (1).
MaxSearchRows == 5
MaxSearchNnz == 4

\* the row-offset arrays convertToCSR returns for r rows and at most
\* MaxSearchNnz entries: rowPtr[0] = 0, non-decreasing, empty rows anywhere
RowOffsets(r) ==
  { rp \in [0..r -> 0..MaxSearchNnz] :
      /\ rp[0] = 0 /\ rp[r] >= 1
      /\ \A i \in 0..(r - 1) : rp[i] <= rp[i + 1] }

\* the sorted 0-based triplets with the row offsets rp
TripletsOf(rp, r) ==
  [k \in 0..(rp[r] - 1) |->
     [row |-> CHOOSE i \in 0..(r - 1) : rp[i] <= k /\ k < rp[i + 1], col |-> 0, val |-> 1]]

SearchInit ==
  /\ prog = "atomic"
  /\ rows \in 1..MaxSearchRows
  /\ rowPtr \in RowOffsets(rows)
  /\ cols = 1 /\ nnz = rowPtr[rows]
  /\ triplets = TripletsOf(rowPtr, rows)
  /\ file = [rows |-> rows, cols |-> cols, nnz |-> nnz, entries |-> triplets]
  /\ maxRow = MaxLoop(0, triplets, 0, nnz, TRUE) /\ maxCol = 0
  /\ colIndex = [k \in 0..(nnz - 1) |-> 0]
  /\ values = [k \in 0..(nnz - 1) |-> 1]
  /\ S = Unset
  /\ runs = 1 /\ chunk = 0 /\ sigma = 0
  /\ x = [j \in 0..(cols - 1) |-> 1]
  /\ y = [i \in 0..(rows - 1) |-> 0]
  /\ run = 0
  /\ pc = "kernel" /\ phase = "accum"
  /\ iters = 0..(nnz - 1) /\ th = AllIdle
  /\ wcount = [i \in 0..(rows - 1) |-> 0]
  /\ exitCode = -1 /\ out = NoOutput
  /\ argv = Unset /\ stream = Unset
  /\ schedStr = "guided" /\ threads = 0
  /\ times = [i \in 0..(runs - 1) |-> Undef]
  /\ log = <<[ev |-> "x", n |-> 1], [ev |-> "call", n |-> 1]>>
  /\ saved = Unset

SearchNext ==
  \/ \E t \in Threads : AtomicClaim(t) \/ AtomicAdd(t)
  \/ AtomicJoin

Search == SearchInit /\ [][SearchNext]_vars

\* ------------------------------------------------------ reference notions
\* the sum of f over the finite set D of arguments
RECURSIVE SumOver(_, _)
SumOver(D, f) ==
  IF D = {} THEN 0
  ELSE LET e == CHOOSE e \in D : TRUE IN f[e] + SumOver(D \ {e}, f)

\* the sum of value*x[col] over the entries of t whose row is r
EntryDot(t, n, r, xv) ==
  SumOver({i \in 0..(n - 1) : t[i].row = r},
          [i \in 0..(n - 1) |-> t[i].val * xv[t[i].col]])

\* the sum of values[k]*x[colIndex[k]] over the segment of row r
SegmentDot(r, vals, ci, rp, xv) ==
  SumOver({k \in DOMAIN vals : rp[r] <= k /\ k < rp[r + 1]},
          [k \in DOMAIN vals |-> vals[k] * xv[ci[k]]])

\* the program has built its CSR arrays
CsrBuilt == pc \in {"sell", "config", "genx", "kernel", "print", "save", "done"}

\* C1: in each CSR-based program, when a kernel invocation of a run has
\* returned, y[r] is the sum of value*x[col] over exactly the loaded entries
\* whose 0-based row is r.
C1_RunComputesProduct ==
  (prog \in CsrPrograms /\ pc = "print") =>
    \A r \in 0..(rows - 1) : y[r] = EntryDot(triplets, nnz, r, x)

\* C2: on a triplet list whose rows all lie in [0, rows), the write-cursor
\* builders (row-parallel, atomic, SELL-C inline) return a row-offset array
\* of length rows+1 that starts at 0, never decreases and ends at nnz, so the
\* row lengths sum to nnz.
C2_RowPtrShape ==
  (/\ prog \in {"par", "atomic", "sellc"} /\ CsrBuilt
   /\ \A i \in 0..(nnz - 1) : triplets[i].row \in 0..(rows - 1)) =>
    /\ DOMAIN rowPtr = 0..rows
    /\ rowPtr[0] = 0
    /\ \A i \in 0..(rows - 1) : rowPtr[i] <= rowPtr[i + 1]
    /\ rowPtr[rows] = nnz
    /\ SumOver(0..(rows - 1), [i \in 0..(rows - 1) |-> rowPtr[i + 1] - rowPtr[i]]) = nnz

\* C2 witness: a builder has returned offsets with an empty row between two
\* rows that hold entries
C2_Witness ==
  /\ prog = "sellc" /\ pc = "sell" /\ rows = 3
  /\ rowPtr[1] = 1 /\ rowPtr[2] = 1 /\ rowPtr[3] = 2

\* C3: under every assignment of rows to threads and every interleaving, each
\* y[i] of the row-parallel kernel is stored at most once while the loop runs
\* and exactly once when it has returned, and the stored value is the
\* sequential row kernel's; no iteration touches another row's entry.
C3_RowParallelMatchesSequential ==
  (prog = "par" /\ pc \in {"kernel", "print"}) =>
    LET ref == csrMatVecMultiply_seq(rows, values, colIndex, rowPtr, x)
    IN \A i \in 0..(rows - 1) :
         /\ wcount[i] <= 1
         /\ wcount[i] = 1 => y[i] = ref[i]
         /\ pc = "print" => wcount[i] = 1
         /\ (wcount[i] = 0 /\ run = 0) => y[i] = Undef

\* C3 witness: two threads hold rows 2 and 0 at once, taken out of order,
\* after row 1 was stored with a non-zero sum
C3_Witness ==
  /\ prog = "par" /\ pc = "kernel" /\ rows = 3
  /\ th[1].it = 2 /\ th[2].it = 0
  /\ wcount[1] = 1 /\ y[1] > 0

\* C4: when the atomic kernel returns, y[row] is the sum of
\* values[k]*x[colIndex[k]] over the k of the row's segment, for every
\* distribution of the k over threads and every order of the atomic adds.
C4_AtomicSum ==
  (prog = "atomic" /\ pc = "print") =>
    \A r \in 0..(rows - 1) : y[r] = SegmentDot(r, values, colIndex, rowPtr, x)

\* C4 witness: the kernel has returned after two atomic adds into one row,
\* both of a non-zero product, and that row is not row 0
C4_Witness ==
  /\ prog = "atomic" /\ pc = "print"
  /\ \E r \in 1..(rows - 1) : wcount[r] = 2 /\ y[r] = values[rowPtr[r]] + values[rowPtr[r] + 1]

\* C5: for a CSR matrix with its columns in [0, cols), the y that sellcs_spmv
\* leaves is the row-kernel result in a reordered row order: some permutation
\* p of the rows that keeps every row inside its sigma window gives
\* y[i] = the full dot product of CSR row p(i) with x.  Stated for the builds
\* whose stores all stayed inside col_idx and values, so that it is judged on
\* defined behaviour only.
C5_SellPermutedProduct ==
  (/\ prog = "sellc" /\ pc = "print" /\ S.oob = {}
   /\ \A k \in 0..(nnz - 1) : colIndex[k] \in 0..(cols - 1)) =>
    \E p \in ArrayOrders(rows) :
      /\ \A i \in 0..(rows - 1) : p[i] \div sigma = i \div sigma
      /\ \A i \in 0..(rows - 1) : y[i] = SegmentDot(p[i], values, colIndex, rowPtr, x)

\* the number of CSR positions of row r that hold (c, v)
CsrCount(r, c, v) ==
  Cardinality({k \in 0..(nnz - 1) :
                 /\ rowPtr[r] <= k /\ k < rowPtr[r + 1]
                 /\ colIndex[k] = c /\ values[k] = v})

\* the number of entries of t equal to (r, c, v)
TripletCount(t, n, r, c, v) ==
  Cardinality({i \in 0..(n - 1) : t[i] = [row |-> r, col |-> c, val |-> v]})

\* C6: the CSR of the write-cursor convertToCSR holds, in the segment of every
\* row r, each (col, value) exactly as often as (r, col, value) occurs among
\* the sorted triplets; entries with the same (row, col) stay separate.
C6_LosslessReordering ==
  (prog \in {"par", "atomic"} /\ CsrBuilt) =>
    \A r \in 0..(rows - 1), c \in 0..(cols - 1), v \in Vals :
      CsrCount(r, c, v) = TripletCount(triplets, nnz, r, c, v)

\* C6 witness: the row-parallel builder has stored two entries of the same
\* (row, col) with different values next to each other
C6_Witness ==
  /\ prog = "par" /\ pc = "config"
  /\ \E r \in 0..(rows - 1) :
       /\ rowPtr[r + 1] - rowPtr[r] = 2
       /\ colIndex[rowPtr[r]] = colIndex[rowPtr[r] + 1]
       /\ values[rowPtr[r]] # values[rowPtr[r] + 1]

\* the file f with its entry lines in the order p
Reordered(f, p) == [f EXCEPT !.entries = [i \in 0..(f.nnz - 1) |-> f.entries[p[i]]]]

\* the entries of f as the program pg holds them when it builds its CSR from
\* them, before any sort
LoadedFrom(pg, f) ==
  IF pg = "sellc" THEN DecrementAll(f.entries, f.nnz)
  ELSE IF DetectedOneBased(MaxLoop(0, f.entries, 0, f.nnz, TRUE),
                           MaxLoop(0, f.entries, 0, f.nnz, FALSE), f.rows, f.cols)
  THEN DecrementAll(f.entries, f.nnz)
  ELSE f.entries

\* the CSR outputs the program pg can build from the file f
BuiltFrom(pg, f) ==
  CASE pg = "sellc" -> {sellcConvertToCSR(LoadedFrom(pg, f), f.nnz, f.rows)}
    [] pg = "seq" -> {convertToCSR_seq(s, f.nnz, f.rows) : s \in qsort(LoadedFrom(pg, f), f.nnz)}
    [] pg = "par" -> {convertToCSR(s, f.nnz, f.rows) : s \in qsort(LoadedFrom(pg, f), f.nnz)}
    [] pg = "atomic" -> {convertToCSR_atomic(s, f.nnz, f.rows) : s \in qsort(LoadedFrom(pg, f), f.nnz)}

\* C7: the CSR output does not depend on the order of the entry lines: from
\* every file that lists the same entries in another order the program builds
\* the rowPtr, colIndex and values arrays it has built here, and no others.
C7_OrderIndependent ==
  CsrBuilt =>
    \A p \in ArrayOrders(nnz) : BuiltFrom(prog, Reordered(file, p)) = {csrOf}

\* the largest element of a non-empty finite set of integers
SetMax(D) == CHOOSE m \in D : \A e \in D : e <= m

\* the file's entries after the index normalisation the specification states
NormalizedEntries(f) ==
  LET mr == SetMax({f.entries[i].row : i \in 0..(f.nnz - 1)})
      mc == SetMax({f.entries[i].col : i \in 0..(f.nnz - 1)})
  IN [i \in 0..(f.nnz - 1) |->
        IF mr = f.rows \/ mc = f.cols
        THEN [row |-> f.entries[i].row - 1, col |-> f.entries[i].col - 1,
              val |-> f.entries[i].val]
        ELSE f.entries[i]]

\* the entry numbers (0-based) of t outside [0, r) x [0, c)
OutOfRange(t, n, r, c) ==
  {i \in 0..(n - 1) : ~(t[i].row \in 0..(r - 1) /\ t[i].col \in 0..(c - 1))}

SetMin(D) == CHOOSE m \in D : \A e \in D : m <= e

\* C8: in the three CSR programs validation runs on the normalised entries
\* and before the sort: a file with an entry out of range ends with exit code
\* 1 and a report of the first such entry (1-based number, row, col), with the
\* entries still unsorted and no CSR, x or y ever made; the sort and
\* convertToCSR only ever see entries inside [0, rows) x [0, cols).
C8_ValidationGate ==
  prog \in CsrPrograms =>
    LET t == NormalizedEntries(file)
        bad == OutOfRange(t, file.nnz, file.rows, file.cols)
    IN /\ (bad # {} /\ pc \notin {"load", "detect", "validate"}) =>
            /\ pc = "exit" /\ exitCode = 1
            /\ out = [kind |-> "invalid indices", entry |-> SetMin(bad) + 1,
                      row |-> t[SetMin(bad)].row, col |-> t[SetMin(bad)].col]
            /\ triplets = t
            /\ rowPtr = Unset /\ colIndex = Unset /\ values = Unset
            /\ x = Unset /\ y = Unset
       /\ pc = "exit" => bad # {}
       /\ pc \in {"sort", "convert"} => OutOfRange(triplets, nnz, rows, cols) = {}

\* C8 witness: after the 1-based conversion the second entry is the first
\* invalid one, its row being past the last row, and main has returned 1
C8_Witness ==
  /\ prog = "atomic" /\ pc = "exit" /\ exitCode = 1
  /\ triplets # file.entries
  /\ out.entry = 2 /\ out.row = rows

\* C9: once the entries are read, either every row and column index has been
\* decremented by one, or none has; the first happens exactly when the
\* largest row read equals rows or the largest column read equals cols.
C9_GlobalDecrementDecision ==
  (prog \in CsrPrograms /\ pc \in {"validate", "sort", "exit"}) =>
    LET mr == SetMax({file.entries[i].row : i \in 0..(nnz - 1)})
        mc == SetMax({file.entries[i].col : i \in 0..(nnz - 1)})
        e == file.entries
    IN IF mr = rows \/ mc = cols
       THEN \A i \in 0..(nnz - 1) :
              triplets[i] = [row |-> e[i].row - 1, col |-> e[i].col - 1, val |-> e[i].val]
       ELSE \A i \in 0..(nnz - 1) : triplets[i] = e[i]

\* C9 witness: the decision was taken on the column evidence alone and both
\* entries were decremented, the one that holds no maximum included
C9_Witness ==
  /\ prog = "seq" /\ pc = "validate" /\ nnz = 2
  /\ maxCol = cols /\ maxRow # rows
  /\ file.entries[0].col < cols
  /\ triplets[0].row = file.entries[0].row - 1
  /\ triplets[0].col = file.entries[0].col - 1

\* every entry of f has its row in [1, rows] and its column in [1, cols]
WellFormedOneBased(f) ==
  \A i \in 0..(f.nnz - 1) :
    f.entries[i].row \in 1..f.rows /\ f.entries[i].col \in 1..f.cols

\* the program holds the loaded entries and has not yet reordered them
EntriesLoaded ==
  \/ prog \in CsrPrograms /\ pc \in {"validate", "sort"}
  \/ prog = "sellc" /\ pc = "convert"

\* C10: from a well-formed 1-based file every program stores every entry at
\* the 0-based position (row-1, col-1), also when no entry lies in the last
\* row or the last column.
C10_OneBasedStoredZeroBased ==
  (WellFormedOneBased(file) /\ EntriesLoaded) =>
    \A i \in 0..(nnz - 1) :
      /\ triplets[i].row = file.entries[i].row - 1
      /\ triplets[i].col = file.entries[i].col - 1

\* ------------------------------------------------ reference notions, files
\* the matrix file has been opened
FileOpened == \E i \in 1..Len(log) : log[i].ev = "open"

\* every line of ls is a comment line (an empty file has none)
OnlyComments(ls) == \A i \in 1..Len(ls) : IsComment(ls[i])

\* the lines of ls from the first that is no comment
FromFirstData(ls) ==
  LET first == CHOOSE i \in 1..(Len(ls) + 1) :
                 /\ \A j \in 1..(i - 1) : IsComment(ls[j])
                 /\ i <= Len(ls) => ~IsComment(ls[i])
  IN SubSeq(ls, first, Len(ls))

\* what the header conversions yield on the text after the comments
HeaderOf(ls) == ScanHeader(Flatten(FromFirstData(ls)))

\* the stream after i entries have been scanned from ts
RECURSIVE AfterEntries(_, _)
AfterEntries(ts, i) == IF i = 0 THEN ts ELSE ScanEntry(AfterEntries(ts, i - 1)).rest

\* the numbers (from 1) of the declared entries that cannot be read: an
\* earlier entry was read, and this one does not parse as integer, integer,
\* number or the stream has ended
UnreadableEntries(ls) ==
  LET h == HeaderOf(ls)
  IN {i \in 1..h.nnz : /\ \A j \in 1..(i - 1) : ScanEntry(AfterEntries(h.rest, j - 1)).n = 3
                       /\ ScanEntry(AfterEntries(h.rest, i - 1)).n # 3}

\* the error a loader is to report for the text ls, or "none"
FormatFault(ls) ==
  IF OnlyComments(ls) THEN "only comments or empty"
  ELSE IF HeaderOf(ls).n # 3 THEN "invalid matrix header"
  ELSE IF HeaderOf(ls).rows <= 0 \/ HeaderOf(ls).cols <= 0 \/ HeaderOf(ls).nnz <= 0
  THEN "invalid matrix dimensions"
  ELSE IF UnreadableEntries(ls) # {} THEN "invalid matrix element"
  ELSE "none"

\* no CSR was built, no kernel was invoked and no result file was opened
NothingComputed ==
  /\ rowPtr = Unset /\ colIndex = Unset /\ values = Unset /\ S = Unset
  /\ x = Unset /\ y = Unset
  /\ \A i \in 1..Len(log) : log[i].ev = "open"
  /\ saved = Unset

\* C11: the sequential, row-parallel and atomic loaders fail, with the error
\* message of the case, exit code 1, no CSR built, no kernel invoked and no
\* result file written, when the file is empty or holds only comment lines,
\* when the header does not yield three integers, when a count is <= 0, when
\* an entry does not parse as integer, integer, number, and when the stream
\* ends before nnz entries were read.
C11_FormatErrorsFail ==
  (/\ prog \in CsrPrograms /\ FileOpened
   /\ FormatFault(file.lines) # "none"
   /\ pc \notin {"skip", "header", "entries"}) =>
    /\ pc = "exit" /\ exitCode = 1
    /\ out.kind = FormatFault(file.lines)
    /\ out.kind = "invalid matrix element" => out.entry \in UnreadableEntries(file.lines)
    /\ NothingComputed

\* C11 witness: the stream ended before the second of two declared entries,
\* and the row-parallel program has returned 1 on it
C11_Witness ==
  /\ prog = "par" /\ pc = "exit" /\ exitCode = 1
  /\ out.kind = "invalid matrix element" /\ out.entry = 2
  /\ nnz = 2 /\ stream = << << >> >>

\* the first line that is no comment holds two integers and nothing else
TwoIntegerHeader(ls) ==
  LET d == FromFirstData(ls)
  IN /\ d # << >>
     /\ Len(Head(d)) = 2
     /\ Head(d)[1].k = "int" /\ Head(d)[2].k = "int"

\* C12: a file whose header line holds only two integers is rejected with the
\* header format error, exit code 1, before anything is allocated, whatever
\* follows the line: the third integer is never taken from the next line and
\* the failure is no later entry or index error.
C12_TwoIntegerHeaderRejected ==
  (/\ FileOpened /\ TwoIntegerHeader(file.lines)
   /\ pc \notin {"skip", "header"}) =>
    /\ pc = "exit" /\ exitCode = 1
    /\ out.kind = "invalid matrix header"
    /\ nnz = 0 /\ triplets = Unset
    /\ NothingComputed

\* C13: the SELL-C program goes past its load only with a valid matrix: the
\* declared rows, cols and nnz are positive and every entry, after the index
\* normalisation, lies in [0, rows) x [0, cols); so the CSR conversion never
\* writes rowptr, tmp, csr_col or csr_val outside the allocation.
C13_SellUsesOnlyValidMatrix ==
  (prog = "sellc" /\ pc \in {"convert", "sell", "config", "genx", "kernel",
                            "print", "save", "done", "ub"}
                 /\ FileOpened /\ file.lines # << >>) =>
    /\ rows > 0 /\ cols > 0 /\ nnz > 0
    /\ OutOfRange(triplets, nnz, rows, cols) = {}
    /\ pc = "ub" => out.at = "save"

\* --------------------------------------------- reference notions, sessions
\* the number of "Run n: ... ms" lines printed so far
PrintedRuns == Cardinality({i \in 1..Len(log) : log[i].ev = "print"})

\* the number of kernel invocations so far
KernelCalls == Cardinality({i \in 1..Len(log) : log[i].ev = "call"})

\* the runs a session of `runs` runs makes
RunCount == IF runs > 0 THEN runs ELSE 0

\* the last thing the program did was a failed fopen of its result file
SinkFailed ==
  /\ log # << >>
  /\ log[Len(log)].ev = "fopen"
  /\ ~log[Len(log)].ok

\* C14: in every program, when the result file cannot be opened for writing
\* the program does not fail: all the per-run lines were printed before, the
\* failure is reported, nothing is persisted and the program ends with exit
\* code 0.
C14_UnwritableSinkTolerated ==
  SinkFailed =>
    /\ pc = "done" /\ exitCode = 0
    /\ PrintedRuns = RunCount
    /\ out.kind = "could not create output file"
    /\ saved = Unset

\* the events of the timing session: the log without the opening of the
\* matrix file
SessionEvents == SelectSeq(log, LAMBDA e : e.ev # "open")

\* the i-th event of a strictly sequential session: x, call, return and
\* print of run 1, then of run 2, ...
StepName(i) ==
  CASE (i - 1) % 4 = 0 -> "x"
    [] (i - 1) % 4 = 1 -> "call"
    [] (i - 1) % 4 = 2 -> "return"
    [] (i - 1) % 4 = 3 -> "print"

\* C15: in every program the timing session is strictly sequential: for
\* n = 1..runs in ascending order x is generated, the kernel is invoked once,
\* and "Run n" is printed after invocation n has returned and before the x of
\* run n+1 is generated; exactly `runs` lines are printed, and the result
\* file is opened only after the line of the last run.
C15_SequentialSession ==
  LET ev == SessionEvents
  IN /\ Len(ev) <= 4 * RunCount + 1
     /\ \A i \in 1..Len(ev) :
          IF i <= 4 * RunCount
          THEN ev[i].ev = StepName(i) /\ ev[i].n = ((i - 1) \div 4) + 1
          ELSE ev[i].ev = "fopen"
     /\ pc \in {"genx", "kernel", "print"} => Len(ev) < 4 * RunCount
     /\ pc \in {"sorttimes", "save"} => Len(ev) = 4 * RunCount /\ PrintedRuns = runs
     /\ pc = "done" => Len(ev) = 4 * RunCount + 1 /\ PrintedRuns = RunCount
     /\ pc = "kernel" => ev[Len(ev)] = [ev |-> "call", n |-> run + 1]
     /\ pc = "print" => ev[Len(ev)] = [ev |-> "return", n |-> run + 1]

\* C15 witness: the row-parallel program is inside the kernel invocation of
\* its second run, after "Run 1" was printed
C15_Witness ==
  /\ prog = "par" /\ pc = "kernel" /\ run = 1 /\ runs = 2
  /\ Len(SessionEvents) = 6
  /\ \E t \in Threads : th[t] # Idle

\* what row r of the SELL-C structure sl gives with x: the sum over the
\* slice's length of values[idx]*x[col_idx[idx]] at the row's cells
SellRowDot(r, sl, xv) ==
  LET s == r \div sl.C
      cell == [k \in 0..(sl.slice_lengths[s] - 1) |->
                 sl.slice_ptr[s] + k * sl.C + (r - s * sl.C)]
  IN SumOver(DOMAIN cell,
             [k \in DOMAIN cell |-> sl.values[cell[k]] * xv[sl.col_idx[cell[k]]]])

\* the y a kernel leaves, as a function of the matrix and x
KernelResult ==
  IF prog = "sellc"
  THEN [r \in 0..(rows - 1) |-> SellRowDot(r, S, x)]
  ELSE [r \in 0..(rows - 1) |-> SegmentDot(r, values, colIndex, rowPtr, x)]

\* every column the CSR arrays hold is an index of x
ColumnsInsideX == \A k \in 0..(nnz - 1) : colIndex[k] \in 0..(cols - 1)

\* C16: no state crosses runs through y: whenever one of the four kernels
\* returns, in the first run on a y nothing was stored in or in a later run
\* on the y of the run before, y is the same function of the matrix and of
\* this run's x.  (SELL-C: for the builds that stayed inside their arrays
\* and the matrices whose columns are indices of x.)
C16_NoStateThroughY ==
  (pc = "print" /\ (prog = "sellc" => S.oob = {} /\ ColumnsInsideX)) => y = KernelResult

\* C16 witness: the atomic kernel has returned from its second invocation
\* with a non-zero y, the first having left a non-zero y as well
C16_Witness ==
  /\ prog = "atomic" /\ pc = "print" /\ run = 1
  /\ \E r \in 0..(rows - 1) : y[r] > 0 /\ wcount[r] > 0
  /\ x # [j \in 0..(cols - 1) |-> 0]

\* C17: in the row-parallel and atomic programs a schedule name that is none
\* of static, dynamic, guided, auto aborts the session with exit code 1
\* before any computation: the triplets are not sorted, no CSR is built, no
\* kernel is invoked and no result file is written.
C17_BadScheduleAbortsFirst ==
  (/\ prog \in {"par", "atomic"} /\ pc # "start"
   /\ schedStr # "" /\ ~parseSchedule(schedStr)) =>
    /\ pc \notin {"convert", "config", "genx", "kernel", "print", "save", "done"}
    /\ pc = "exit" => exitCode = 1
    /\ rowPtr = Unset /\ colIndex = Unset /\ values = Unset
    /\ KernelCalls = 0 /\ saved = Unset

\* the timing run n printed
Recorded(n) == log[CHOOSE i \in 1..Len(log) : log[i].ev = "print" /\ log[i].n = n]

\* floor(0.9 * n)
Floor90(n) == CHOOSE k \in 0..n : 10 * k <= 9 * n /\ 9 * n < 10 * (k + 1)

\* how often v is among the c smallest of the recorded timings
AmongSmallest(v, c) ==
  LET same == Cardinality({n \in 1..runs : Recorded(n).ms = v})
      below == Cardinality({n \in 1..runs : Recorded(n).ms < v})
  IN IF c - below <= 0 THEN 0 ELSE IF c - below < same THEN c - below ELSE same

\* C18: the sequential program persists the best 90% of its runs: with
\* keep = floor(0.9*runs) it writes exactly keep timings, the keep smallest
\* of the recorded ones in ascending order, and leaves out the runs-keep
\* largest; for runs = 1 it writes none.
C18_BestNinetyPercent ==
  (prog = "seq" /\ pc = "done" /\ saved # Unset) =>
    LET keep == Floor90(runs)
    IN /\ saved.name = "best_runs.txt"
       /\ Len(saved.lines) = keep
       /\ \A i \in 1..(keep - 1) : saved.lines[i] <= saved.lines[i + 1]
       /\ \A v \in Timings :
            Cardinality({i \in 1..keep : saved.lines[i] = v}) = AmongSmallest(v, keep)
       /\ runs = 1 => saved.lines = << >>

\* C18 witness: three runs measured 2, 1 and 2 ms; the file holds 1 and 2
C18_Witness ==
  /\ prog = "seq" /\ pc = "done" /\ runs = 3 /\ saved # Unset
  /\ Recorded(1).ms = 2 /\ Recorded(2).ms = 1 /\ Recorded(3).ms = 2
  /\ saved.lines = <<1, 2>>

\* C19: started as "MVM_sequential <matrix_file> -r <runs>" with runs > 0, the
\* sequential program makes exactly <runs> multiplications and prints
\* exactly <runs> "Run n" lines.
C19_SequentialHonoursRunsFlag ==
  (/\ prog = "seq" /\ argc(argv) = 4 /\ argv[2] = "-r" /\ atoi(argv[3]) > 0
   /\ pc \in {"sorttimes", "save", "done"}) =>
    /\ PrintedRuns = atoi(argv[3])
    /\ KernelCalls = atoi(argv[3])

\* C20: in every program a command line with -h or --help at any position
\* makes the program print its usage text and exit with code 0, without
\* opening or loading a matrix file.
C20_HelpAnywhere ==
  ((\E i \in 1..(argc(argv) - 1) : argv[i] \in {"-h", "--help"}) /\ pc # "start") =>
    /\ pc = "exit" /\ exitCode = 0
    /\ out.kind = "usage"
    /\ ~FileOpened /\ stream = Unset

\* ------------------------------------------ reference notions, the builders
\* the (col, value) pairs a CSR holds in positions [rowPtr[r], rowPtr[r+1])
RowPairs(r, csr) ==
  { <<csr.colIndex[j], csr.values[j]>> : j \in csr.rowPtr[r]..(csr.rowPtr[r + 1] - 1) }

\* C21: for the same sorted triplet list and dimensions the sequential
\* convertToCSR returns the same rowPtr as the write-cursor convertToCSR of
\* the row-parallel program, and for every row r the same set of
\* (col, value) pairs in positions [rowPtr[r], rowPtr[r+1]).
C21_SequentialBuilderEquivalent ==
  (prog = "seq" /\ pc = "config") =>
    LET ref == convertToCSR(triplets, nnz, rows)
    IN /\ rowPtr = ref.rowPtr
       /\ \A r \in 0..(rows - 1) : RowPairs(r, csrOf) = RowPairs(r, ref)

\* the number of entries of CSR row r
RowNnz(r) == rowPtr[r + 1] - rowPtr[r]

\* the CSR rows the builder stores in slice s: s*C .. min((s+1)*C, rows)-1
MemberRows(s) == { r \in 0..(rows - 1) : s * chunk <= r /\ r < (s + 1) * chunk }

\* C22: after csr_to_sellcs, for every slice s, slice_lengths[s] is the
\* maximum nonzero count among the CSR rows s*C .. min((s+1)*C, rows)-1 the
\* builder stores in slice s; no member row has more nonzeros than its
\* slice's length.
C22_SliceLengthIsMemberMax ==
  (prog = "sellc" /\ S # Unset) =>
    \A s \in 0..(S.slices - 1) :
      /\ \A r \in MemberRows(s) : RowNnz(r) <= S.slice_lengths[s]
      /\ \E r \in MemberRows(s) : RowNnz(r) = S.slice_lengths[s]

\* C23: every index at which csr_to_sellcs writes col_idx and values while
\* filling slice s lies in [slice_ptr[s], slice_ptr[s+1]), hence inside the
\* arrays of slice_ptr[slices] elements.
C23_FillStaysInSlice ==
  (prog = "sellc" /\ S # Unset) =>
    /\ \A s \in 0..(S.slices - 1) :
         \A idx \in FillWrites(s, S, csrOf) :
           S.slice_ptr[s] <= idx /\ idx < S.slice_ptr[s + 1]
    /\ S.oob = {}

\* the SELL-C cell that holds element k of row r
CellOf(r, k) ==
  S.slice_ptr[r \div chunk] + k * chunk + (r - (r \div chunk) * chunk)

\* C24: whenever C is a multiple of sigma, sellcs_spmv on the output of
\* csr_to_sellcs returns for every row r, in original row order, the row
\* kernel's value: the sum of csr_val[j]*x[csr_col[j]] over j in
\* [rowptr[r], rowptr[r+1]); every padding cell holds the value 0 and so
\* contributes 0.  Stated for the CSR matrices whose columns are indices of
\* x, for which the row kernel's value is defined.
C24_SellMatchesRowKernel ==
  (prog = "sellc" /\ pc = "print" /\ chunk % sigma = 0 /\ ColumnsInsideX) =>
    /\ S.oob = {}
    /\ y = csrMatVecMultiply_seq(rows, values, colIndex, rowPtr, x)
    /\ \A r \in 0..(rows - 1) :
         \A k \in RowNnz(r)..(S.slice_lengths[r \div chunk] - 1) :
           S.values[CellOf(r, k)] = 0

\* C24 witness: C = sigma = 2, the window sort has exchanged the lengths of
\* rows 0 and 1, row 0 is padded, and row 1 got a non-zero product
C24_Witness ==
  /\ prog = "sellc" /\ pc = "print" /\ chunk = 2 /\ sigma = 2 /\ rows >= 2
  /\ RowNnz(0) < RowNnz(1) /\ S.row_len[0] = RowNnz(1)
  /\ S.values[CellOf(0, 0)] = 0
  /\ y[1] > 0

\* ------------------------------------------ reference notions, the kernels
\* the slices some thread holds, and the threads that hold slice s
HeldSlices == { th[t].it : t \in { u \in Threads : th[u] # Idle } }
HoldersOf(s) == { t \in Threads : th[t] # Idle /\ th[t].it = s }

\* C25: in sellcs_spmv the iteration for slice s accesses y[r] only for r in
\* [s*C, min((s+1)*C, rows)); these ranges are pairwise disjoint and cover
\* 0..rows-1; the zeroing loop is complete before any slice iteration
\* starts.  So no two threads hold iterations that access the same y[r], and
\* every slice iteration that has not run yet finds its rows at 0.
C25_SlicesOwnTheirRows ==
  (prog = "sellc" /\ pc = "kernel") =>
    /\ \A s1, s2 \in 0..(S.slices - 1) :
         s1 # s2 => SliceRowRange(s1, S) \cap SliceRowRange(s2, S) = {}
    /\ UNION { SliceRowRange(s, S) : s \in 0..(S.slices - 1) } = 0..(rows - 1)
    /\ phase = "zero" => th = AllIdle
    /\ phase = "accum" =>
         /\ \A s \in 0..(S.slices - 1) : Cardinality(HoldersOf(s)) <= 1
         /\ iters \cap HeldSlices = {}
         /\ \A s \in iters \cup HeldSlices : \A r \in SliceRowRange(s, S) : y[r] = 0

\* C25 witness: two threads run two slices at the same time, after a third
\* slice's row got a non-zero y
C25_Witness ==
  /\ prog = "sellc" /\ pc = "kernel" /\ phase = "accum"
  /\ \A t \in Threads : th[t] # Idle
  /\ \E r \in 0..(rows - 1) : y[r] > 0

\* the iterations k of the atomic kernel's second loop whose atomic add has
\* been performed
AddsDone ==
  (0..(rowPtr[rows] - 1)) \ (iters \cup { th[t].it : t \in { u \in Threads : th[u] # Idle } })

\* C26: in every invocation of the atomic csrMatVecMultiply all rows of y
\* are 0 before the first atomic add: while the zeroing loop runs no product
\* has been computed or added, and from the barrier on y[r] is exactly the
\* sum of the products added to row r so far, so no row is zeroed after an
\* add and no product is added to a row that was not zeroed.
C26_ZeroBeforeAccumulate ==
  (prog = "atomic" /\ pc = "kernel") =>
    /\ phase = "zero" =>
         /\ th = AllIdle
         /\ \A r \in 0..(rows - 1) : wcount[r] = 0
    /\ phase = "accum" =>
         \A r \in 0..(rows - 1) :
           LET mine == { k \in AddsDone : rowPtr[r] <= k /\ k < rowPtr[r + 1] }
           IN /\ wcount[r] = Cardinality(mine)
              /\ y[r] = SumOver(mine, [k \in mine |-> values[k] * x[colIndex[k]]])

\* C26 witness: in its second invocation the atomic kernel has added a
\* product, another is in flight, and a row with entries that nothing was
\* added to yet is 0
C26_Witness ==
  /\ prog = "atomic" /\ pc = "kernel" /\ phase = "accum" /\ run = 1
  /\ AddsDone # {} /\ th # AllIdle
  /\ \E r \in 0..(rows - 1) : wcount[r] = 0 /\ y[r] = 0 /\ RowNnz(r) > 0

\* C27: for every non-decreasing row-offset array with rowPtr[0] = 0, empty
\* rows anywhere, and every k in [0, rowPtr[rows]), findRow(k, rowPtr, rows)
\* terminates and returns the unique row r with rowPtr[r] <= k < rowPtr[r+1];
\* the fallback return of 0 is not reached.
C27_FindRowFindsOwner ==
  \A t \in Threads :
    (pc = "kernel" /\ phase = "accum" /\ prog = "atomic" /\ th[t] # Idle) =>
      /\ th[t].it \in 0..(rowPtr[rows] - 1)
      /\ th[t].row \in 0..(rows - 1)
      /\ rowPtr[th[t].row] <= th[t].it /\ th[t].it < rowPtr[th[t].row + 1]
      /\ \A r \in 0..(rows - 1) :
           (rowPtr[r] <= th[t].it /\ th[t].it < rowPtr[r + 1]) => r = th[t].row
      /\ ~findRowFallsBack(0, rows - 1, th[t].it, rowPtr)

\* C27 witness: five rows, the first and the last one empty; findRow has
\* gone right from the middle row and found entry 3 in row 3
C27_Witness ==
  /\ prog = "atomic" /\ pc = "kernel" /\ phase = "accum"
  /\ rows = 5 /\ rowPtr[1] = 0 /\ rowPtr[4] = rowPtr[5]
  /\ \E t \in Threads : th[t] # Idle /\ th[t].it = 3 /\ th[t].row = 3

\* the sort windows of the builder: [b, min(b+sigma, rows)), b a multiple
\* of sigma
Windows == { { r \in 0..(rows - 1) : b <= r /\ r < b + sigma } :
             b \in { r \in 0..(rows - 1) : r % sigma = 0 } }

\* C28: after the window sort of csr_to_sellcs, in every window
\* [b, min(b+sigma, rows)) the row lengths are in non-increasing order and
\* are a permutation of the original lengths of the rows of that window; no
\* length moves across a window boundary; the last window may be shorter.
C28_WindowSort ==
  (prog = "sellc" /\ S # Unset) =>
    \A w \in Windows :
      /\ \A i, j \in w : i < j => S.row_len[i] >= S.row_len[j]
      /\ \A v \in 0..nnz :
           Cardinality({ r \in w : S.row_len[r] = v }) =
           Cardinality({ r \in w : RowNnz(r) = v })

\* C28 witness: three rows with sigma = 2: the sort has exchanged the
\* lengths of rows 0 and 1, and the short last window keeps its one length
C28_Witness ==
  /\ prog = "sellc" /\ S # Unset /\ rows = 3 /\ sigma = 2
  /\ RowNnz(0) = 0 /\ RowNnz(1) = 1 /\ RowNnz(2) = 1
  /\ S.row_len = [r \in 0..2 |-> IF r = 1 THEN 0 ELSE 1]

\* C29: after csr_to_sellcs with C > 0: slices = ceil(rows / C),
\* slice_ptr[0] = 0 and slice_ptr[s+1] = slice_ptr[s] + slice_lengths[s]*C
\* for every s, so slice_ptr is non-decreasing, and slice_ptr[slices] is the
\* number of elements allocated for col_idx and for values.
C29_SlicePtrPrefixSum ==
  (prog = "sellc" /\ S # Unset) =>
    /\ S.slices * chunk >= rows /\ (S.slices - 1) * chunk < rows
    /\ DOMAIN S.slice_ptr = 0..S.slices /\ DOMAIN S.slice_lengths = 0..(S.slices - 1)
    /\ S.slice_ptr[0] = 0
    /\ \A s \in 0..(S.slices - 1) :
         /\ S.slice_ptr[s + 1] = S.slice_ptr[s] + S.slice_lengths[s] * chunk
         /\ S.slice_ptr[s] <= S.slice_ptr[s + 1]
    /\ DOMAIN S.col_idx = 0..(S.slice_ptr[S.slices] - 1)
    /\ DOMAIN S.values = 0..(S.slice_ptr[S.slices] - 1)

\* C29 witness: three rows in two slices of height 2, the second slice only
\* half filled with rows, both slices of length 1: four cells allocated
C29_Witness ==
  /\ prog = "sellc" /\ S # Unset /\ rows = 3 /\ chunk = 2
  /\ S.slices = 2 /\ S.slice_lengths = [s \in 0..1 |-> 1]
  /\ S.slice_ptr = [s \in 0..2 |-> 2 * s]
  /\ Cardinality(DOMAIN S.values) = 4

\* the SELL-C program was started with a -c or -s value that is zero,
\* negative or no number
BadChunkOrSigma ==
  /\ prog = "sellc" /\ argv # Unset /\ argc(argv) >= 10
  /\ atoi(argv[5]) <= 0 \/ atoi(argv[7]) <= 0

\* C30: the SELL-C program never invokes csr_to_sellcs outside its
\* precondition: a -c or -s value that is zero, negative or non-numeric is
\* rejected with a non-zero exit before the build, so the builder always
\* runs with C > 0 and sigma > 0 and its window-sort loop terminates.
C30_BuilderPreconditionChecked ==
  prog = "sellc" =>
    /\ pc = "sell" => chunk > 0 /\ sigma > 0
    /\ pc # "spin"
    /\ BadChunkOrSigma =>
         /\ pc \notin {"sell", "config", "genx", "kernel", "print", "save", "done"}
         /\ pc = "ub" => out.at # "sell"
         /\ pc = "exit" => exitCode \notin {-1, 0}
         /\ S = Unset

====
